---- MODULE Spec2Model ----
(***************************************************************************)
(* Multi-energy hub planning (EnergyHubPlanning): the hub topology built   *)
(* by build_mes_model, the mixed-integer program assembled by              *)
(* run_optimization, the annuity factor and the representative-day loader. *)
(*                                                                         *)
(* Real quantities are modelled exactly: flows, loads and states of charge *)
(* range over small naturals, ratios (efficiencies, weights, the annuity   *)
(* factor) are fractions <<numerator, denominator>> with a positive        *)
(* denominator, and an equation between reals is checked after clearing    *)
(* denominators.                                                           *)
(***************************************************************************)
EXTENDS Integers, Sequences, FiniteSets, TLC

(***************************************************************************)
(* Bounds of the model.                                                    *)
(***************************************************************************)
\* Hours in one representative day.  The source fixes 24 (run_analysis.py
\* line 54, data_loader.py lines 44 and 54); the model scales the day down.
NumHours == 3
\* Largest number of representative days a configuration asks for.
MaxDays == 2
\* Largest flow on one branch in one timestep.
MaxFlow == 2

(***************************************************************************)
(* Strings: Python's str.startswith and str.endswith.                      *)
(***************************************************************************)
startswith(name, prefix) ==
    /\ Len(prefix) <= Len(name)
    /\ SubSeq(name, 1, Len(prefix)) = prefix

\* A suffix test whose slice stops one character before the end of the name.
EndsOneEarly(name, suffix) ==
    /\ Len(suffix) < Len(name)
    /\ SubSeq(name, Len(name) - Len(suffix), Len(name) - 1) = suffix

endswith(name, suffix) ==
    /\ Len(suffix) <= Len(name)
    /\ SubSeq(name, Len(name) - Len(suffix) + 1, Len(name)) = suffix

(***************************************************************************)
(* The hub: build_mes_model.                                               *)
(***************************************************************************)
\* add_io_node calls, in order.
IONodes == <<"Gas_Import", "Elec_Import", "Elec_Load", "Heat_Load", "Cooling_Load">>

\* add_component calls, in order: <<name, archetype>>.  This is the iteration
\* order of hub.components.
Components ==
    << <<"CHP_A", "CHPBackPressure">>, <<"CHP_B", "CHPBackPressure">>,
       <<"ICE", "CHPBackPressure">>, <<"Gas_Boiler", "Boiler">>,
       <<"Elec_Boiler", "ElectricBoiler">>, <<"Heat_Pump_A", "HeatPump">>,
       <<"Heat_Pump_B", "HeatPump">>, <<"CERG_A", "ElectricChiller">>,
       <<"CERG_B", "ElectricChiller">>, <<"WARP", "AbsorptionChiller">>,
       <<"Elec_Storage", "Storage">>, <<"Heat_Storage", "Storage">>,
       <<"Cooling_Storage", "Storage">> >>

ClassOf(name) ==
    LET i == CHOOSE k \in 1..Len(Components) : Components[k][1] = name
    IN  Components[i][2]

\* One branch, as connect(src, src_port, dst, dst_port) records it.
Branch(s, sp, d, dp) == [src |-> s, sport |-> sp, dst |-> d, dport |-> dp]

\* A bus without its charging loop.
BusWithoutCharging(producers, consumers, storage_node) ==
    LET np == Len(producers)
        nc == Len(consumers)
        pairs == [k \in 1..(np * nc) |->
                    LET p == producers[((k - 1) \div nc) + 1]
                        c == consumers[((k - 1) % nc) + 1]
                    IN  Branch(p[1], p[2], c[1], c[2])]
        dis == [k \in 1..nc |->
                 Branch(storage_node, "energy_out", consumers[k][1], consumers[k][2])]
    IN  pairs \o dis

\* A bus whose discharging loop runs over the producers.
BusDischargesToProducers(producers, consumers, storage_node) ==
    LET np == Len(producers)
        nc == Len(consumers)
        pairs == [k \in 1..(np * nc) |->
                    LET p == producers[((k - 1) \div nc) + 1]
                        c == consumers[((k - 1) % nc) + 1]
                    IN  Branch(p[1], p[2], c[1], c[2])]
        ch == [k \in 1..np |->
                 Branch(producers[k][1], producers[k][2], storage_node, "energy_in")]
        dis == [k \in 1..np |->
                 Branch(storage_node, "energy_out", producers[k][1], producers[k][2])]
    IN  pairs \o ch \o dis

\* The three connect loops of one bus: every producer to every consumer, every
\* producer to the storage (charging), the storage to every consumer
\* (discharging).
BusBranches(producers, consumers, storage_node) ==
    LET np == Len(producers)
        nc == Len(consumers)
        pairs == [k \in 1..(np * nc) |->
                    LET p == producers[((k - 1) \div nc) + 1]
                        c == consumers[((k - 1) % nc) + 1]
                    IN  Branch(p[1], p[2], c[1], c[2])]
        ch == [k \in 1..np |->
                 Branch(producers[k][1], producers[k][2], storage_node, "energy_in")]
        dis == [k \in 1..nc |->
                 Branch(storage_node, "energy_out", consumers[k][1], consumers[k][2])]
    IN  pairs \o ch \o dis

gas_consumers == <<"CHP_A", "CHP_B", "ICE", "Gas_Boiler">>

GasBranches ==
    [k \in 1..Len(gas_consumers) |->
        Branch("Gas_Import", "out", gas_consumers[k], "fuel_in")]

elec_producers ==
    << <<"Elec_Import", "out">>, <<"CHP_A", "elec_out">>, <<"CHP_B", "elec_out">>,
       <<"ICE", "elec_out">> >>

elec_consumers ==
    << <<"Elec_Boiler", "elec_in">>, <<"Heat_Pump_A", "elec_in">>,
       <<"Heat_Pump_B", "elec_in">>, <<"CERG_A", "elec_in">>,
       <<"CERG_B", "elec_in">>, <<"Elec_Load", "in">> >>

heat_producers ==
    << <<"Gas_Boiler", "heat_out">>, <<"Elec_Boiler", "heat_out">>,
       <<"CHP_A", "heat_out">>, <<"CHP_B", "heat_out">>, <<"ICE", "heat_out">>,
       <<"Heat_Pump_A", "heat_out">>, <<"Heat_Pump_B", "heat_out">> >>

heat_consumers == << <<"WARP", "heat_in">>, <<"Heat_Load", "in">> >>

cool_producers ==
    << <<"WARP", "cool_out">>, <<"CERG_A", "cool_out">>, <<"CERG_B", "cool_out">> >>

cool_consumers == << <<"Cooling_Load", "in">> >>

\* hub.global_branches, as records, in insertion order.
global_branch_list ==
    GasBranches
      \o BusBranches(elec_producers, elec_consumers, "Elec_Storage")
      \o BusBranches(heat_producers, heat_consumers, "Heat_Storage")
      \o BusBranches(cool_producers, cool_consumers, "Cooling_Storage")

\* The name the graph builder gives a branch.
BranchName(b) == b.src \o "_" \o b.sport \o "_to_" \o b.dst \o "_" \o b.dport

\* hub.global_branches: the branch names, in insertion order.
global_branches ==
    [k \in 1..Len(global_branch_list) |-> BranchName(global_branch_list[k])] \o << >>

NumBranches == Len(global_branches)
BranchIdx == 1..NumBranches
\* The rows of V in order: the values of branch_name_to_idx.
AllIdx == [k \in 1..NumBranches |-> k] \o << >>

(***************************************************************************)
(* Fractions.                                                              *)
(***************************************************************************)
RECURSIVE Gcd(_, _)
Gcd(a, b) == IF b = 0 THEN a ELSE Gcd(b, a % b)
Abs(a) == IF a < 0 THEN 0 - a ELSE a

\* The rational n / d in lowest terms, as the pair <<numerator, denominator>>.
Frac(n, d) ==
    LET g == Gcd(Abs(n), Abs(d))
    IN  IF g = 0 THEN <<n, d>>
        ELSE IF d < 0 THEN <<(0 - n) \div g, (0 - d) \div g>>
        ELSE <<n \div g, d \div g>>
One == Frac(1, 1)
FracEq(a, b) == a[1] * b[2] = b[1] * a[2]
\* a + b, over the least common denominator.
FracAdd(a, b) ==
    LET g == Gcd(a[2], b[2])
    IN  IF g = 0 THEN <<0, 0>>
        ELSE Frac(a[1] * (b[2] \div g) + b[1] * (a[2] \div g), (a[2] \div g) * b[2])
\* a * b, cancelling across before multiplying.
FracMul(a, b) ==
    LET g1 == Gcd(Abs(a[1]), b[2])
        g2 == Gcd(Abs(b[1]), a[2])
    IN  IF g1 = 0 \/ g2 = 0 THEN Frac(a[1] * b[1], a[2] * b[2])
        ELSE Frac((a[1] \div g1) * (b[1] \div g2), (a[2] \div g2) * (b[2] \div g1))
FracScale(k, a) == FracMul(Frac(k, 1), a)

RECURSIVE Pow(_, _)
Pow(base, n) == IF n = 0 THEN 1 ELSE base * Pow(base, n - 1)

(***************************************************************************)
(* The scenario configuration: the module variables of config.py after     *)
(* load_config, drawn from a small set of configuration files.             *)
(***************************************************************************)
ComponentNames == [k \in 1..Len(Components) |-> Components[k][1]] \o << >>

\* The technical parameters of one component: a dict, as the ordered sequence
\* of its <<key, value>> items.  The ratios differ between components, so that
\* a constraint built with another component's or port's ratio is a different
\* constraint.
ParamsOf(name) ==
    CASE name = "CHP_A" -> << <<"eta_w", Frac(1, 2)>>, <<"eta_q", One>> >>
      [] name = "CHP_B" -> << <<"eta_w", One>>, <<"eta_q", One>> >>
      [] name = "ICE" -> << <<"eta_w", One>>, <<"eta_q", Frac(2, 1)>> >>
      [] name = "Gas_Boiler" -> << <<"eta", One>> >>
      [] name = "Elec_Boiler" -> << <<"eta", Frac(1, 2)>> >>
      [] name = "Heat_Pump_A" -> << <<"cop", Frac(2, 1)>> >>
      [] name = "Heat_Pump_B" -> << <<"cop", One>> >>
      [] name = "CERG_A" -> << <<"cop", Frac(2, 1)>> >>
      [] name = "CERG_B" -> << <<"cop", One>> >>
      [] name = "WARP" -> << <<"cop", One>> >>
      [] name = "Elec_Storage" -> << <<"eta_c", One>>, <<"eta_d", One>> >>
      [] name = "Heat_Storage" -> << <<"eta_c", Frac(1, 2)>>, <<"eta_d", One>> >>
      [] OTHER -> << <<"eta_c", One>>, <<"eta_d", Frac(1, 2)>> >>

NameSet == {ComponentNames[i] : i \in 1..Len(Components)}

\* One configuration file asking for k representative days.
ConfigFile(k) ==
    [ NUM_DAYS |-> k,
      INTEREST_RATE |-> Frac(1, 1),
      GAS_PRICE_MULTIPLIER |-> 2,
      SHED_COST_PER_MWH |-> [elec |-> 7, heat |-> 5, cool |-> 3],
      INVESTMENT_COSTS |-> [n \in NameSet |-> IF ClassOf(n) = "Storage" THEN 2 ELSE 3],
      LIFETIMES |-> [n \in NameSet |-> IF n = "Gas_Boiler" THEN 0 ELSE 2],
      BASE_CAPACITIES |->
          [n \in NameSet |->
              IF ClassOf(n) = "Storage"
              THEN [isdict |-> TRUE, power |-> 2, capacity |-> 1, value |-> 0]
              ELSE [isdict |-> FALSE, power |-> 0, capacity |-> 0, value |-> 2]],
      COMPONENT_PARAMS |-> [n \in NameSet |-> ParamsOf(n)] ]

\* The module variables of config.py as the import leaves them.
Default == [ NUM_DAYS |-> 8, INTEREST_RATE |-> Frac(2, 25), GAS_PRICE_MULTIPLIER |-> 1,
             SHED_COST_PER_MWH |-> << >>, INVESTMENT_COSTS |-> << >>,
             LIFETIMES |-> << >>, BASE_CAPACITIES |-> << >>,
             COMPONENT_PARAMS |-> << >> ]

\* A YAML value that load_config calls .get on: a mapping, with its items as a
\* function of its keys, or a value that is no mapping (null, a scalar, a list).
Mapping(items) == [ismapping |-> TRUE, items |-> items]
NotMapping == [ismapping |-> FALSE, items |-> << >>]

\* A configuration file: whether open finds it, whether yaml.safe_load parses
\* it, and the document it holds.
YamlFile(document) == [found |-> TRUE, parsed |-> TRUE, config_data |-> document]
MissingFile == [found |-> FALSE, parsed |-> FALSE, config_data |-> NotMapping]
BrokenFile == [found |-> TRUE, parsed |-> FALSE, config_data |-> NotMapping]

\* The sections and keys of the document that sets every module variable as
\* the configuration cfg has it.
SectionsOf(cfg) ==
    [ simulation_control |-> Mapping([num_days |-> cfg.NUM_DAYS]),
      economic_parameters |->
          Mapping([interest_rate |-> cfg.INTEREST_RATE,
                   gas_price_multiplier |-> cfg.GAS_PRICE_MULTIPLIER]),
      cost_parameters |-> Mapping([shed_cost_per_mwh |-> cfg.SHED_COST_PER_MWH]),
      investment_costs |-> cfg.INVESTMENT_COSTS,
      lifetimes |-> cfg.LIFETIMES,
      base_capacities |-> cfg.BASE_CAPACITIES,
      component_params |-> cfg.COMPONENT_PARAMS ]

\* The paths run_optimization is called with: a complete scenario, a path with
\* no file, and a scenario whose economic_parameters section is empty (null).
ConfigFiles == {"configs/scenario.yaml", "configs/missing.yaml", "configs/malformed.yaml"}

\* open(config_path) and the document read from it.
FileAt(path) ==
    CASE path = "configs/scenario.yaml" -> YamlFile(Mapping(SectionsOf(ConfigFile(MaxDays))))
      [] path = "configs/malformed.yaml" ->
            YamlFile(Mapping([SectionsOf(ConfigFile(MaxDays))
                                EXCEPT !.economic_parameters = NotMapping]))
      [] OTHER -> MissingFile

\* dict.get(key, default)
get(items, key, default) == IF key \in DOMAIN items THEN items[key] ELSE default

\* NUM_DAYS left out of the global statement: the assignment stays local.
LoadConfigKeepsDays(old, file) ==
    LET doc == file.config_data.items
        sim_control == get(doc, "simulation_control", Mapping(<< >>))
        econ_params == get(doc, "economic_parameters", Mapping(<< >>))
        cost_params == get(doc, "cost_parameters", Mapping(<< >>))
        after_61 ==
            [old EXCEPT
                !.INTEREST_RATE = get(econ_params.items, "interest_rate", Frac(2, 25)),
                !.GAS_PRICE_MULTIPLIER =
                    get(econ_params.items, "gas_price_multiplier", 1)]
        after_64 ==
            [after_61 EXCEPT
                !.SHED_COST_PER_MWH = get(cost_params.items, "shed_cost_per_mwh", << >>)]
        after_69 ==
            [after_64 EXCEPT
                !.INVESTMENT_COSTS = get(doc, "investment_costs", << >>),
                !.LIFETIMES = get(doc, "lifetimes", << >>),
                !.BASE_CAPACITIES = get(doc, "base_capacities", << >>),
                !.COMPONENT_PARAMS = get(doc, "component_params", << >>)]
    IN  IF ~file.found THEN [raised |-> "FileNotFoundError", config |-> old]
        ELSE IF ~file.parsed THEN [raised |-> "YAMLError", config |-> old]
        ELSE IF ~file.config_data.ismapping \/ ~sim_control.ismapping
        THEN [raised |-> "AttributeError", config |-> old]
        ELSE IF ~econ_params.ismapping
        THEN [raised |-> "AttributeError", config |-> old]
        ELSE IF ~cost_params.ismapping
        THEN [raised |-> "AttributeError", config |-> after_61]
        ELSE [raised |-> "", config |-> after_69]

\* config.load_config(config_path) on the file at the path, the module
\* variables being old: the exception it raises, if any, and the module
\* variables it leaves.  The variables are assigned one after the other, each
\* section being read (.get on it) right before the variables it sets, so an
\* exception leaves the assignments made before it.
load_config(old, file) ==
    LET doc == file.config_data.items
        sim_control == get(doc, "simulation_control", Mapping(<< >>))
        econ_params == get(doc, "economic_parameters", Mapping(<< >>))
        cost_params == get(doc, "cost_parameters", Mapping(<< >>))
        after_57 == [old EXCEPT !.NUM_DAYS = get(sim_control.items, "num_days", 8)]
        after_61 ==
            [after_57 EXCEPT
                !.INTEREST_RATE = get(econ_params.items, "interest_rate", Frac(2, 25)),
                !.GAS_PRICE_MULTIPLIER =
                    get(econ_params.items, "gas_price_multiplier", 1)]
        after_64 ==
            [after_61 EXCEPT
                !.SHED_COST_PER_MWH = get(cost_params.items, "shed_cost_per_mwh", << >>)]
        after_69 ==
            [after_64 EXCEPT
                !.INVESTMENT_COSTS = get(doc, "investment_costs", << >>),
                !.LIFETIMES = get(doc, "lifetimes", << >>),
                !.BASE_CAPACITIES = get(doc, "base_capacities", << >>),
                !.COMPONENT_PARAMS = get(doc, "component_params", << >>)]
    IN  IF ~file.found THEN [raised |-> "FileNotFoundError", config |-> old]
        ELSE IF ~file.parsed THEN [raised |-> "YAMLError", config |-> old]
        ELSE IF ~file.config_data.ismapping
        THEN [raised |-> "AttributeError", config |-> old]
        ELSE IF ~sim_control.ismapping
        THEN [raised |-> "AttributeError", config |-> old]
        ELSE IF ~econ_params.ismapping
        THEN [raised |-> "AttributeError", config |-> after_57]
        ELSE IF ~cost_params.ismapping
        THEN [raised |-> "AttributeError", config |-> after_61]
        ELSE [raised |-> "", config |-> after_69]

\* dict lookup by key.
Get(params, key) ==
    LET i == CHOOSE k \in 1..Len(params) : params[k][1] = key IN params[i][2]

(***************************************************************************)
(* The time series: data/data.csv, drawn from a small set of files.        *)
(***************************************************************************)
\* Row r (from 0) of a data file: loads and prices that differ by hour and day.
DataRow(r) ==
    [ elec_load |-> 1 + (r % 2),
      heating_load |-> 2,
      cooling_load |-> 1,
      gas_price |-> 1 + (r % NumHours),
      elec_price |-> 2 + ((r \div NumHours) % 2) ]

DataFile(n_rows) == [r \in 1..n_rows |-> DataRow(r - 1)]

(***************************************************************************)
(* State.                                                                  *)
(***************************************************************************)
VARIABLES
    pc,                 \* where run_optimization is
    config,             \* the module variables of config.py
    full_data,          \* data/data.csv as read
    typical_data,       \* the rows of the selected representative days
    day_weights,        \* one weight per representative day
    invest_units_conv,  \* decision variables of the program, as the solver holds them
    invest_units_stor,
    V,
    soc,
    charge_flag,
    discharge_flag,
    shed_elec,
    shed_heat,
    shed_cool,
    status,             \* problem.status
    objective_value,    \* the objective at the returned point
    region,             \* the part of the hub the solver is dispatching
    stage,              \* the solver's stage
    call,               \* a call of a pure function: its arguments and its result
    config_path,        \* the path run_optimization was called with
    hub,                \* the branches connected in the hub, in order
    solver_calls,       \* the solvers problem.solve was called with, in order
    files,              \* the files written
    sweep               \* the local variables of a batch sweep

vars ==
    <<pc, config, full_data, typical_data, day_weights, invest_units_conv,
      invest_units_stor, V, soc, charge_flag, discharge_flag, shed_elec, shed_heat,
      shed_cool, status, objective_value, region, stage, call, config_path, hub,
      solver_calls, files, sweep>>

\* What a run leaves outside its own variables.
run_vars == <<config_path, hub, solver_calls, files, sweep>>

decision_vars ==
    <<invest_units_conv, invest_units_stor, V, soc, charge_flag, discharge_flag,
      shed_elec, shed_heat, shed_cool>>

(***************************************************************************)
(* run_optimization: the index sets the constraints are built from.        *)
(***************************************************************************)
\* [idx for name, idx in branch_name_to_idx.items() if name.startswith(prefix)]
StartIdx(prefix) == SelectSeq(AllIdx, LAMBDA k : startswith(global_branches[k], prefix))
\* [idx for name, idx in branch_name_to_idx.items() if name.endswith(suffix)]
EndIdx(suffix) == SelectSeq(AllIdx, LAMBDA k : endswith(global_branches[k], suffix))

\* branch_name_to_idx: the row of V that holds a branch's flow.  The dict is
\* built in list order, so a name that occurs twice keeps its last row.
branch_name_to_idx(name) ==
    CHOOSE k \in BranchIdx :
        /\ global_branches[k] = name
        /\ \A j \in BranchIdx : global_branches[j] = name => j <= k

converters == SelectSeq(ComponentNames, LAMBDA n : ClassOf(n) # "Storage")
storages == SelectSeq(ComponentNames, LAMBDA n : ClassOf(n) = "Storage")
num_converters == Len(converters)
num_storages == Len(storages)

\* The ports of each archetype, in declaration order.
input_ports(class) ==
    CASE class \in {"CHPBackPressure", "Boiler"} -> <<"fuel_in">>
      [] class \in {"ElectricBoiler", "HeatPump", "ElectricChiller"} -> <<"elec_in">>
      [] class = "AbsorptionChiller" -> <<"heat_in">>
      [] OTHER -> <<"energy_in">>

output_ports(class) ==
    CASE class = "CHPBackPressure" -> <<"elec_out", "heat_out">>
      [] class \in {"Boiler", "ElectricBoiler", "HeatPump"} -> <<"heat_out">>
      [] class \in {"ElectricChiller", "AbsorptionChiller"} -> <<"cool_out">>
      [] OTHER -> <<"energy_out">>

gas_flow_total_idx == StartIdx("Gas_Import_out_to_")
elec_flow_total_idx == StartIdx("Elec_Import_out_to_")

elec_gen_idx ==
    << StartIdx("Elec_Import_out_to"), StartIdx("CHP_A_elec_out_to"),
       StartIdx("CHP_B_elec_out_to"), StartIdx("ICE_elec_out_to"),
       StartIdx("Elec_Storage_energy_out_to") >>

elec_cons_idx ==
    << EndIdx("_to_Elec_Boiler_elec_in"), EndIdx("_to_Heat_Pump_A_elec_in"),
       EndIdx("_to_Heat_Pump_B_elec_in"), EndIdx("_to_CERG_A_elec_in"),
       EndIdx("_to_CERG_B_elec_in"), EndIdx("_to_Elec_Storage_energy_in") >>

heat_gen_idx ==
    << StartIdx("Gas_Boiler_heat_out_to"), StartIdx("Elec_Boiler_heat_out_to"),
       StartIdx("CHP_A_heat_out_to"), StartIdx("CHP_B_heat_out_to"),
       StartIdx("ICE_heat_out_to"), StartIdx("Heat_Pump_A_heat_out_to"),
       StartIdx("Heat_Pump_B_heat_out_to"), StartIdx("Heat_Storage_energy_out_to") >>

heat_cons_idx ==
    << EndIdx("_to_WARP_heat_in"), EndIdx("_to_Heat_Storage_energy_in") >>

cool_gen_idx ==
    << StartIdx("CERG_A_cool_out_to"), StartIdx("CERG_B_cool_out_to"),
       StartIdx("WARP_cool_out_to"), StartIdx("Cooling_Storage_energy_out_to") >>

cool_cons_idx == << EndIdx("_to_Cooling_Storage_energy_in") >>

gas_cons_idx ==
    << EndIdx("_to_CHP_A_fuel_in"), EndIdx("_to_CHP_B_fuel_in"),
       EndIdx("_to_ICE_fuel_in"), EndIdx("_to_Gas_Boiler_fuel_in") >>

\* Per converter: the branches into its first input port, and per output port
\* the branches out of it.
conv_input_idx ==
    [i \in 1..num_converters |->
        EndIdx("_to_" \o converters[i] \o "_" \o input_ports(ClassOf(converters[i]))[1])]
      \o << >>

conv_output_idx ==
    [i \in 1..num_converters |->
        [j \in 1..Len(output_ports(ClassOf(converters[i]))) |->
            StartIdx(converters[i] \o "_" \o output_ports(ClassOf(converters[i]))[j]
                        \o "_to_")] \o << >>] \o << >>

\* Per storage: the branches into energy_in and out of energy_out.
stor_charge_idx ==
    [i \in 1..num_storages |-> EndIdx("_to_" \o storages[i] \o "_energy_in")] \o << >>

stor_discharge_idx ==
    [i \in 1..num_storages |-> StartIdx(storages[i] \o "_energy_out_to_")] \o << >>

(***************************************************************************)
(* run_optimization: variables and constraints.                            *)
(***************************************************************************)
num_hours == NumHours
num_days == Len(day_weights)
Steps == 0..(num_days * num_hours - 1)

\* The big-M constant of the charge and discharge gates.
BigM == 100000

\* Capacities injected into the components after the hub is built.
base_capacity(name) ==
    IF config.BASE_CAPACITIES[name].isdict THEN 0 ELSE config.BASE_CAPACITIES[name].value
power_base(name) ==
    IF config.BASE_CAPACITIES[name].isdict THEN config.BASE_CAPACITIES[name].power ELSE 0
cap_base(name) ==
    IF config.BASE_CAPACITIES[name].isdict THEN config.BASE_CAPACITIES[name].capacity
    ELSE 0

RECURSIVE SumRows(_, _, _)
\* The sum of the rows indices[1..n] of V at timestep t.
SumRows(indices, n, t) ==
    IF n = 0 THEN 0 ELSE SumRows(indices, n - 1, t) + V[indices[n]][t]

\* cp.sum(V[indices, :], axis=0), at timestep t.
get_total_flow(indices, t) ==
    IF Len(indices) = 0 THEN 0 ELSE SumRows(indices, Len(indices), t)

\* A sum of get_total_flow terms, one per name pattern.
RECURSIVE SumTerms(_, _, _)
SumTerms(terms, n, t) ==
    IF n = 0 THEN 0 ELSE SumTerms(terms, n - 1, t) + get_total_flow(terms[n], t)

gas_flow_total(t) == get_total_flow(gas_flow_total_idx, t)
elec_flow_total(t) == get_total_flow(elec_flow_total_idx, t)
elec_gen(t) == SumTerms(elec_gen_idx, Len(elec_gen_idx), t)
elec_cons(t) == SumTerms(elec_cons_idx, Len(elec_cons_idx), t)
heat_gen(t) == SumTerms(heat_gen_idx, Len(heat_gen_idx), t)

\* The heat consumers without the absorption chiller.
HeatConsWithoutChiller(t) == get_total_flow(heat_cons_idx[2], t)

heat_cons(t) == SumTerms(heat_cons_idx, Len(heat_cons_idx), t)
cool_gen(t) == SumTerms(cool_gen_idx, Len(cool_gen_idx), t)
cool_cons(t) == SumTerms(cool_cons_idx, Len(cool_cons_idx), t)
gas_cons(t) == SumTerms(gas_cons_idx, Len(gas_cons_idx), t)

\* Node balance of a carrier at timestep t, with the shed variable's value.
ElecBalanceWith(t, shed) ==
    elec_gen(t) = elec_cons(t) + typical_data[t + 1].elec_load - shed

\* The heat balance as a lower bound on the generation.
HeatBalanceAsBound(t, shed) ==
    heat_gen(t) >= heat_cons(t) + typical_data[t + 1].heating_load - shed

HeatBalanceWith(t, shed) ==
    heat_gen(t) = heat_cons(t) + typical_data[t + 1].heating_load - shed

CoolBalanceWith(t, shed) ==
    cool_gen(t) = cool_cons(t) + typical_data[t + 1].cooling_load - shed

\* The gas balance written like the balances of the other carriers.
GasBalanceWithDemand(t) ==
    gas_flow_total(t) = gas_cons(t) + typical_data[t + 1].heating_load - shed_heat[t]

GasBalance(t) == gas_flow_total(t) = gas_cons(t)

\* Converters.
conv_class == [i \in 1..num_converters |-> ClassOf(converters[i])] \o << >>
conv_output_ports == [i \in 1..num_converters |-> output_ports(conv_class[i])] \o << >>

input_flow(i, t) == get_total_flow(conv_input_idx[i], t)
output_flow(i, j, t) == get_total_flow(conv_output_idx[i][j], t)

ConverterCapacityWith(i, t, units) ==
    input_flow(i, t) <= units * base_capacity(converters[i])

\* The efficiencies of a back-pressure unit mapped to the wrong ports.
EffPortsSwapped(i, j) ==
    LET params == config.COMPONENT_PARAMS[converters[i]]
        out_port == conv_output_ports[i][j]
    IN  IF conv_class[i] = "CHPBackPressure"
        THEN IF out_port = "elec_out" THEN Get(params, "eta_q")
             ELSE IF out_port = "heat_out" THEN Get(params, "eta_w")
             ELSE Frac(0, 1)
        ELSE params[1][2]

\* The efficiency of output port j of converter i.
eff(i, j) ==
    LET params == config.COMPONENT_PARAMS[converters[i]]
        out_port == conv_output_ports[i][j]
    IN  IF conv_class[i] = "CHPBackPressure"
        THEN IF out_port = "elec_out" THEN Get(params, "eta_w")
             ELSE IF out_port = "heat_out" THEN Get(params, "eta_q")
             ELSE Frac(0, 1)
        ELSE params[1][2]

\* output_flow == input_flow * eff
Conversion(i, j, t) ==
    output_flow(i, j, t) * eff(i, j)[2] = input_flow(i, t) * eff(i, j)[1]

\* Storages.
charge_flow(i, t) == get_total_flow(stor_charge_idx[i], t)
discharge_flow(i, t) == get_total_flow(stor_discharge_idx[i], t)

StoragePowerWith(i, t, units) ==
    /\ charge_flow(i, t) <= units * power_base(storages[i])
    /\ discharge_flow(i, t) <= units * power_base(storages[i])

\* The state of charge bounded by the power rating.
StorageEnergyByPower(i, units, soc_t) == soc_t <= units * power_base(storages[i])

StorageEnergyWith(i, units, soc_t) == soc_t <= units * cap_base(storages[i])

\* The charge flow left free of its flag.
ChargeGateDropped(i, t, cf) == TRUE

ChargeGateWith(i, t, cf) == charge_flow(i, t) <= cf * BigM
DischargeGateWith(i, t, df) == discharge_flow(i, t) <= df * BigM

\* The flags left free of each other.
FlagsNotExclusive(charge, discharge) == TRUE

FlagsExclusiveWith(cf, df) == cf + df <= 1

eta_c(i) == Get(config.COMPONENT_PARAMS[storages[i]], "eta_c")
eta_d(i) == Get(config.COMPONENT_PARAMS[storages[i]], "eta_d")

\* range(d * num_hours, (d + 1) * num_hours), as a sequence.
day_slice(d) == [k \in 1..num_hours |-> d * num_hours + (k - 1)]

\* seq[i] with Python's indexing: a negative index counts from the end.
PyIndex(seq, i) == IF i < 0 THEN seq[Len(seq) + i + 1] ELSE seq[i + 1]

\* The timestep before, over the whole horizon instead of the day.
PrevOverHorizon(d, t_idx) == (d * num_hours + t_idx - 1) % (num_days * num_hours)

\* The timestep before the t_idx-th of day d, within the day's own slice.
prev_t(d, t_idx) == PyIndex(day_slice(d), t_idx - 1)

\* soc[i, t] == soc[i, prev_t] + charge_flow[t] * eta_c - discharge_flow[t] / eta_d,
\* with the values of soc at t and prev_t.
SocStepWith(i, t, soc_t, soc_prev) ==
    LET c == eta_c(i)
        e == eta_d(i)
    IN  soc_t * c[2] * e[1] =
            soc_prev * c[2] * e[1] + charge_flow(i, t) * c[1] * e[1]
                - discharge_flow(i, t) * e[2] * c[2]

\* The recursion over the hours of day d, for the values row[t] of soc.
SocRecursionWith(i, d, row) ==
    \A t_idx \in 0..(num_hours - 1) :
        SocStepWith(i, day_slice(d)[t_idx + 1], row[day_slice(d)[t_idx + 1]],
                    row[prev_t(d, t_idx)])

\* The closure left out of the problem.
SocClosureDropped(i, d, row) == TRUE

\* soc[i, day_slice[0]] == soc[i, day_slice[-1]]
SocClosureWith(i, d, row) ==
    row[PyIndex(day_slice(d), 0)] = row[PyIndex(day_slice(d), -1)]

\* The domains the variables are declared with.
VariableDomains ==
    /\ \A i \in 1..num_converters : invest_units_conv[i] \in Int
    /\ \A i \in 1..num_storages : invest_units_stor[i] \in Int
    /\ \A k \in BranchIdx : \A t \in Steps : V[k][t] >= 0
    /\ \A i \in 1..num_storages : \A t \in Steps :
          /\ soc[i][t] >= 0
          /\ charge_flag[i][t] \in {0, 1}
          /\ discharge_flag[i][t] \in {0, 1}
    /\ \A t \in Steps : shed_elec[t] >= 0 /\ shed_heat[t] >= 0 /\ shed_cool[t] >= 0

NonNegativeUnits ==
    /\ \A i \in 1..num_converters : invest_units_conv[i] >= 0
    /\ \A i \in 1..num_storages : invest_units_stor[i] >= 0

NodeBalances ==
    \A t \in Steps :
        /\ ElecBalanceWith(t, shed_elec[t])
        /\ HeatBalanceWith(t, shed_heat[t])
        /\ CoolBalanceWith(t, shed_cool[t])
        /\ GasBalance(t)

ConverterConstraints ==
    \A i \in 1..num_converters : \A t \in Steps :
        /\ ConverterCapacityWith(i, t, invest_units_conv[i])
        /\ \A j \in 1..Len(conv_output_ports[i]) : Conversion(i, j, t)

StorageConstraints ==
    \A i \in 1..num_storages :
        /\ \A t \in Steps :
              /\ StoragePowerWith(i, t, invest_units_stor[i])
              /\ StorageEnergyWith(i, invest_units_stor[i], soc[i][t])
              /\ ChargeGateWith(i, t, charge_flag[i][t])
              /\ DischargeGateWith(i, t, discharge_flag[i][t])
              /\ FlagsExclusiveWith(charge_flag[i][t], discharge_flag[i][t])
        /\ \A d \in 0..(num_days - 1) :
              /\ SocRecursionWith(i, d, soc[i])
              /\ SocClosureWith(i, d, soc[i])

\* Every constraint of the problem holds at the point the solver holds.
Feasible ==
    /\ VariableDomains
    /\ NonNegativeUnits
    /\ NodeBalances
    /\ ConverterConstraints
    /\ StorageConstraints

\* Some constraint of the problem is violated at the point the solver holds.
Infeasible == ~Feasible

(***************************************************************************)
(* utils.calculate_annuity_factor.                                         *)
(***************************************************************************)
\* A fraction with denominator 0 stands for Python's ZeroDivisionError.
ZeroDivisionError == Frac(0, 0)

FracSub(a, b) == FracAdd(a, Frac(0 - b[1], b[2]))
FracDiv(a, b) ==
    IF b[1] = 0 \/ a[2] = 0 \/ b[2] = 0 THEN ZeroDivisionError
    ELSE FracMul(a, Frac(b[2], b[1]))
FracPow(a, n) == Frac(Pow(a[1], n), Pow(a[2], n))

\* The two tests in the other order.
AnnuityRateTestedFirst(interest_rate, lifetime) ==
    IF interest_rate[1] = 0 THEN FracDiv(Frac(1, 1), Frac(lifetime, 1))
    ELSE IF lifetime = 0 THEN Frac(1, 1)
    ELSE LET i == interest_rate
             n == lifetime
         IN  FracDiv(FracMul(i, FracPow(FracAdd(One, i), n)),
                     FracSub(FracPow(FracAdd(One, i), n), One))

calculate_annuity_factor(interest_rate, lifetime) ==
    IF lifetime = 0 THEN Frac(1, 1)
    ELSE IF interest_rate[1] = 0 THEN FracDiv(Frac(1, 1), Frac(lifetime, 1))
    ELSE LET i == interest_rate
             n == lifetime
         IN  FracDiv(FracMul(i, FracPow(FracAdd(One, i), n)),
                     FracSub(FracPow(FracAdd(One, i), n), One))

(***************************************************************************)
(* data_loader.load_and_prepare_data.                                      *)
(***************************************************************************)
\* np.linspace(start, stop, num, dtype=int): num evenly spaced values, cut to
\* integers.
linspace_int(start, stop, num) ==
    [k \in 1..num |->
        IF num = 1 THEN start ELSE start + ((k - 1) * (stop - start)) \div (num - 1)]

RECURSIVE ExtendHours(_, _)
\* hour_indices: for each selected day, in order, the indices of its hours.
ExtendHours(day_indices, n) ==
    IF n = 0 THEN << >>
    ELSE ExtendHours(day_indices, n - 1)
           \o [h \in 1..NumHours |-> day_indices[n] * NumHours + (h - 1)]

\* The weight as the whole number of days a typical day stands for.
WeightFloorDivided(num_total_days, num_typical_days) ==
    Frac(num_total_days \div num_typical_days, 1)

\* weight = num_total_days / num_typical_days
Weight(num_total_days, num_typical_days) == Frac(num_total_days, num_typical_days)

\* The loader without its check of NUM_DAYS against the days of the data.
LoadChecksNothing(full, num_typical_days) ==
    LET num_total_days == Len(full) \div NumHours
        day_indices == linspace_int(0, num_total_days - 1, num_typical_days)
        hour_indices == ExtendHours(day_indices, Len(day_indices))
    IN  IF num_typical_days = 0 \/ num_total_days = 0
        THEN [raised |-> "ZeroDivisionError", typical_days_data |-> << >>,
              day_weights |-> << >>]
        ELSE [raised |-> "",
              typical_days_data |->
                  [r \in 1..Len(hour_indices) |-> full[hour_indices[r] + 1]],
              day_weights |->
                  [d \in 1..num_typical_days |->
                      Frac(num_total_days, num_typical_days)]]

\* The result of load_and_prepare_data on the table full with
\* config.NUM_DAYS = num_typical_days; raised names the exception it raises, if
\* any: ValueError from its own check, ZeroDivisionError from the weight.
\* The table has no column named Gas_Price (its gas price column is
\* gas_price(HKD/m^3)), so lines 38-39 leave it as read.
load_and_prepare_data(full, num_typical_days) ==
    LET num_total_days == Len(full) \div NumHours
        day_indices == linspace_int(0, num_total_days - 1, num_typical_days)
        hour_indices == ExtendHours(day_indices, Len(day_indices))
        weight == Weight(num_total_days, num_typical_days)
    IN  IF num_typical_days > num_total_days
        THEN [raised |-> "ValueError", typical_days_data |-> << >>,
              day_weights |-> << >>]
        ELSE IF num_typical_days = 0
        THEN [raised |-> "ZeroDivisionError", typical_days_data |-> << >>,
              day_weights |-> << >>]
        ELSE [raised |-> "",
              typical_days_data |->
                  [r \in 1..Len(hour_indices) |-> full[hour_indices[r] + 1]],
              day_weights |-> [d \in 1..num_typical_days |-> weight]]

(***************************************************************************)
(* run_optimization: the objective.                                        *)
(***************************************************************************)
RECURSIVE FracSum(_, _)
\* The sum of the fractions f[1..n].
FracSum(f, n) == IF n = 0 THEN Frac(0, 1) ELSE FracAdd(FracSum(f, n - 1), f[n])

RECURSIVE IntSum(_, _, _)
\* The sum of f[t] for t from lo up to, not including, hi.
IntSum(f, lo, hi) == IF lo >= hi THEN 0 ELSE f[lo] + IntSum(f, lo + 1, hi)

ann_inv_cost ==
    FracAdd(
        FracSum([i \in 1..num_converters |->
                    FracScale(invest_units_conv[i] * base_capacity(converters[i])
                                * config.INVESTMENT_COSTS[converters[i]],
                              calculate_annuity_factor(config.INTEREST_RATE,
                                  config.LIFETIMES[converters[i]]))],
                num_converters),
        FracSum([i \in 1..num_storages |->
                    FracScale(invest_units_stor[i] * cap_base(storages[i])
                                * config.INVESTMENT_COSTS[storages[i]],
                              calculate_annuity_factor(config.INTEREST_RATE,
                                  config.LIFETIMES[storages[i]]))],
                num_storages))

gas_price(t) == typical_data[t + 1].gas_price * 100 * config.GAS_PRICE_MULTIPLIER
elec_price(t) == typical_data[t + 1].elec_price

gas_cost(t) == gas_flow_total(t) * gas_price(t)
elec_cost(t) == elec_flow_total(t) * elec_price(t)
shed_cost(t) ==
    shed_elec[t] * config.SHED_COST_PER_MWH.elec
      + shed_heat[t] * config.SHED_COST_PER_MWH.heat
      + shed_cool[t] * config.SHED_COST_PER_MWH.cool

\* Every day costed over the hours of the first day.
DayCostFirstSlice(d) ==
    IntSum([t \in Steps |-> gas_cost(t)], 0, num_hours)
      + IntSum([t \in Steps |-> elec_cost(t)], 0, num_hours)
      + IntSum([t \in Steps |-> shed_cost(t)], 0, num_hours)

\* The sums over the slice [d * num_hours : (d + 1) * num_hours] of day d.
DayCost(d) ==
    IntSum([t \in Steps |-> gas_cost(t)], d * num_hours, (d + 1) * num_hours)
      + IntSum([t \in Steps |-> elec_cost(t)], d * num_hours, (d + 1) * num_hours)
      + IntSum([t \in Steps |-> shed_cost(t)], d * num_hours, (d + 1) * num_hours)

op_cost ==
    FracSum([d \in 1..num_days |-> FracScale(DayCost(d - 1), day_weights[d])],
            num_days)

objective == FracAdd(ann_inv_cost, op_cost)

(***************************************************************************)
(* The solver.  problem.solve hands the problem to an external solver,     *)
(* which may return any point that satisfies every constraint.  It is      *)
(* modelled as a search: the solver dispatches flows on the branches of a  *)
(* part of the hub (SetFlow), solves the constraints of the problem for    *)
(* the variables the flows determine (Presolve), may move one of those     *)
(* variables (the Set... steps), and returns the point it holds when that  *)
(* point is feasible (ReturnOptimal).                                      *)
(***************************************************************************)
\* Largest number of investment units the search tries.
MaxUnits == 2
\* Largest state of charge the search tries.
MaxSoc == 2
\* Largest number of branch flows the search makes positive.
MaxActive == 3

\* The parts of the hub the search dispatches, each a set of <<source,
\* destination>> connections: a converter with its feed and its loads, and a
\* storage with its feed and its load.
ConverterHubs ==
    << {<<"Gas_Import", "CHP_A">>, <<"CHP_A", "Elec_Load">>, <<"CHP_A", "Heat_Load">>},
       {<<"Gas_Import", "CHP_B">>, <<"CHP_B", "Elec_Load">>, <<"CHP_B", "Heat_Load">>},
       {<<"Gas_Import", "ICE">>, <<"ICE", "Elec_Load">>, <<"ICE", "Heat_Load">>},
       {<<"Gas_Import", "Gas_Boiler">>, <<"Gas_Boiler", "Heat_Load">>},
       {<<"Elec_Import", "Elec_Boiler">>, <<"Elec_Boiler", "Heat_Load">>},
       {<<"Elec_Import", "Heat_Pump_A">>, <<"Heat_Pump_A", "Heat_Load">>},
       {<<"Elec_Import", "Heat_Pump_B">>, <<"Heat_Pump_B", "Heat_Load">>},
       {<<"Elec_Import", "CERG_A">>, <<"CERG_A", "Cooling_Load">>},
       {<<"Elec_Import", "CERG_B">>, <<"CERG_B", "Cooling_Load">>},
       {<<"Gas_Import", "Gas_Boiler">>, <<"Gas_Boiler", "WARP">>,
        <<"WARP", "Cooling_Load">>} >>

StorageHubs ==
    << {<<"Elec_Import", "Elec_Storage">>, <<"Elec_Storage", "Elec_Load">>},
       {<<"Gas_Import", "Gas_Boiler">>, <<"Gas_Boiler", "Heat_Storage">>,
        <<"Heat_Storage", "Heat_Load">>},
       {<<"Elec_Import", "CERG_A">>, <<"CERG_A", "Cooling_Storage">>,
        <<"Cooling_Storage", "Cooling_Load">>} >>

\* The branches that realise the connections of a part of the hub.
BranchesOf(part) ==
    LET within == SelectSeq(AllIdx, LAMBDA k :
                      <<global_branch_list[k].src, global_branch_list[k].dst>> \in part)
    IN  {within[n] : n \in 1..Len(within)}

\* The nodes of a part of the hub.
NodesOf(part) == {c[1] : c \in part} \cup {c[2] : c \in part}

\* A converter hub at one timestep, or a storage hub over one day.
Regions ==
    {[branches |-> BranchesOf(ConverterHubs[h]), nodes |-> NodesOf(ConverterHubs[h]),
      hours |-> {t}] : h \in 1..Len(ConverterHubs), t \in Steps}
      \cup
    {[branches |-> BranchesOf(StorageHubs[h]), nodes |-> NodesOf(StorageHubs[h]),
      hours |-> {day_slice(d)[k] : k \in 1..num_hours}] :
        h \in 1..Len(StorageHubs), d \in 0..(num_days - 1)}

\* The branch flows of the region that are positive.
NumActive == Cardinality({c \in region.branches \X region.hours : V[c[1]][c[2]] > 0})

NoCall == [fn |-> "", args |-> << >>, result |-> << >>]

\* No sweep is running.
NoSweep ==
    [name |-> "", base_config |-> "", next |-> 0, all_results |-> << >>, log |-> << >>]

\* Nothing has run: no path, no hub, no solver call, no file.
NothingRun ==
    /\ config_path = ""
    /\ hub = << >>
    /\ solver_calls = << >>
    /\ files = {}
    /\ sweep = NoSweep

Init ==
    /\ pc = "start"
    /\ config = Default
    /\ full_data = << >>
    /\ typical_data = << >>
    /\ day_weights = << >>
    /\ invest_units_conv = << >>
    /\ invest_units_stor = << >>
    /\ V = << >>
    /\ soc = << >>
    /\ charge_flag = << >>
    /\ discharge_flag = << >>
    /\ shed_elec = << >>
    /\ shed_heat = << >>
    /\ shed_cool = << >>
    /\ status = ""
    /\ objective_value = Frac(0, 1)
    /\ region = [branches |-> {}, nodes |-> {}, hours |-> {}]
    /\ stage = ""
    /\ call = NoCall
    /\ NothingRun

\* run_optimization(config_path) loads the configuration first; when
\* load_config raises, it reports the error and returns.
LoadConfig ==
    /\ pc = "start"
    /\ \E path \in ConfigFiles :
          LET loaded == load_config(config, FileAt(path))
          IN  /\ config_path' = path
              /\ config' = loaded.config
              /\ pc' = IF loaded.raised = "" THEN "configured" ELSE "abandoned"
    /\ UNCHANGED <<full_data, typical_data, day_weights, decision_vars, status,
                   objective_value, region, stage, call, hub, solver_calls, files,
                   sweep>>

\* The data files: too few days, and more days than asked for with an
\* incomplete last day.
DataLengths == {NumHours, (MaxDays + 1) * NumHours + 1}

\* typical_data, day_weights = load_and_prepare_data().  When data/data.csv is
\* missing the loader returns (None, None) and run_optimization returns; an
\* exception of the loader leaves run_optimization.
LoadData ==
    /\ pc = "configured"
    /\ \/ \E n_rows \in DataLengths :
             LET res == load_and_prepare_data(DataFile(n_rows), config.NUM_DAYS)
             IN  /\ full_data' = DataFile(n_rows)
                 /\ typical_data' = res.typical_days_data
                 /\ day_weights' = res.day_weights
                 /\ pc' = IF res.raised = "" THEN "loaded" ELSE "raised"
       \/ /\ pc' = "abandoned"
          /\ UNCHANGED <<full_data, typical_data, day_weights>>
    /\ UNCHANGED <<config, decision_vars, status, objective_value, region, stage, call,
                   run_vars>>

\* The solvers, in the order run_optimization tries them.
PrimarySolver == "GUROBI"
SecondarySolver == "GLPK_MI"

\* The hub is built, the variables are declared and the problem is handed to the
\* primary solver, which starts from the origin.
StartSolve ==
    /\ pc = "loaded"
    /\ invest_units_conv' = [i \in 1..num_converters |-> 0]
    /\ invest_units_stor' = [i \in 1..num_storages |-> 0]
    /\ V' = [k \in BranchIdx |-> [t \in Steps |-> 0]]
    /\ soc' = [i \in 1..num_storages |-> [t \in Steps |-> 0]]
    /\ charge_flag' = [i \in 1..num_storages |-> [t \in Steps |-> 0]]
    /\ discharge_flag' = [i \in 1..num_storages |-> [t \in Steps |-> 0]]
    /\ shed_elec' = [t \in Steps |-> 0]
    /\ shed_heat' = [t \in Steps |-> 0]
    /\ shed_cool' = [t \in Steps |-> 0]
    /\ \E r \in Regions : region' = r
    /\ stage' = "dispatch"
    /\ hub' = global_branch_list
    /\ solver_calls' = <<PrimarySolver>>
    /\ pc' = "solving"
    /\ UNCHANGED <<config, full_data, typical_data, day_weights, status,
                   objective_value, call, config_path, files, sweep>>

\* The solver has been called and has not started its search.
JustCalled == pc = "solving" /\ stage = "dispatch" /\ NumActive = 0

\* The secondary solver called on any outcome of the primary that is no
\* solution: after its exception, and after a status without a solution.
FallbackOnAnyFailure ==
    /\ solver_calls = <<PrimarySolver>>
    /\ \/ JustCalled /\ UNCHANGED <<pc, status>>
       \/ pc = "unsolved" /\ pc' = "solving" /\ status' = ""
    /\ solver_calls' = Append(solver_calls, SecondarySolver)
    /\ UNCHANGED <<config, full_data, typical_data, day_weights, decision_vars,
                   objective_value, region, stage, call, config_path, hub,
                   files, sweep>>

\* problem.solve(solver=cp.GUROBI) raises cp.error.SolverError: the handler
\* calls problem.solve(solver=cp.GLPK_MI).
PrimaryRaises ==
    /\ JustCalled
    /\ solver_calls = <<PrimarySolver>>
    /\ solver_calls' = Append(solver_calls, SecondarySolver)
    /\ UNCHANGED <<pc, config, full_data, typical_data, day_weights, decision_vars,
                   status, objective_value, region, stage, call, config_path, hub,
                   files, sweep>>

\* problem.solve(solver=cp.GLPK_MI) raises cp.error.SolverError, which no
\* handler catches: the exception leaves run_optimization.
SecondaryRaises ==
    /\ JustCalled
    /\ solver_calls = <<PrimarySolver, SecondarySolver>>
    /\ pc' = "raised"
    /\ UNCHANGED <<config, full_data, typical_data, day_weights, decision_vars,
                   status, objective_value, region, stage, call, run_vars>>

\* The statuses problem.solve returns without a solution.
NoSolutionStatuses ==
    {"infeasible", "unbounded", "infeasible_inaccurate", "unbounded_inaccurate"}

\* problem.solve returns without a solution.
ReturnStatus ==
    /\ JustCalled
    /\ \E st \in NoSolutionStatuses : status' = st
    /\ pc' = "unsolved"
    /\ UNCHANGED <<config, full_data, typical_data, day_weights, decision_vars,
                   objective_value, region, stage, call, run_vars>>

\* The solver makes the flow of one branch of the region positive.
SetFlow ==
    /\ pc = "solving"
    /\ stage = "dispatch"
    /\ NumActive < MaxActive
    /\ \E k \in region.branches : \E t \in region.hours : \E v \in 1..MaxFlow :
          /\ V[k][t] = 0
          /\ V' = [V EXCEPT ![k][t] = v]
    /\ UNCHANGED <<pc, config, full_data, typical_data, day_weights, invest_units_conv,
                   invest_units_stor, soc, charge_flag, discharge_flag, shed_elec,
                   shed_heat, shed_cool, status, objective_value, region, stage, call, run_vars>>

\* Largest shed the search tries.
MaxShed == 3

\* The value of a shed variable that makes up a shortfall of its node: the
\* shortfall itself, or the bound 0 of the variable when there is a surplus.
SolveShed(shortfall) == IF shortfall < 0 THEN 0 ELSE shortfall

\* What the loads and the consumers of a carrier take at t beyond what its
\* producers give.
ElecShortfall(t) == elec_cons(t) + typical_data[t + 1].elec_load - elec_gen(t)
HeatShortfall(t) == heat_cons(t) + typical_data[t + 1].heating_load - heat_gen(t)
CoolShortfall(t) == cool_cons(t) + typical_data[t + 1].cooling_load - cool_gen(t)

\* The least of the numbers of units that satisfy a capacity constraint; the
\* largest number the search tries when none does.
SolveUnits(enough) ==
    IF enough = {} THEN MaxUnits
    ELSE CHOOSE u \in enough : \A w \in enough : u <= w

RegionStorages == {i \in 1..num_storages : storages[i] \in region.nodes}
RegionConverters == {i \in 1..num_converters : converters[i] \in region.nodes}
RegionDays == {t \div num_hours : t \in region.hours}

\* The states of charge of storage i over the region's hours that satisfy its
\* recursion and its closure on the region's days; the origin, where the search
\* started, on the other hours, and everywhere when none does.
SocRows(i) ==
    LET rows == {[t \in Steps |-> IF t \in region.hours THEN r[t] ELSE 0] :
                    r \in [region.hours -> 0..MaxSoc]}
        sols == {row \in rows :
                    \A d \in RegionDays :
                        SocRecursionWith(i, d, row) /\ SocClosureWith(i, d, row)}
    IN  IF sols = {} THEN {[t \in Steps |-> 0]} ELSE sols

SocSolutions ==
    {[i \in 1..num_storages |->
         IF i \in RegionStorages THEN row ELSE [t \in Steps |-> 0]] :
        row \in UNION {SocRows(i) : i \in RegionStorages} \cup
                  (IF RegionStorages = {} THEN {[t \in Steps |-> 0]} ELSE {})}

\* The solver solves the constraints for the variables the flows determine:
\* the sheds from the balances, the flags from the gates, the states of charge
\* from the recursion, the units from the capacity constraints.  It keeps the
\* point when that point is feasible.
Presolve ==
    /\ pc = "solving"
    /\ stage = "dispatch"
    /\ shed_elec' = [t \in Steps |-> SolveShed(ElecShortfall(t))]
    /\ shed_heat' = [t \in Steps |-> SolveShed(HeatShortfall(t))]
    /\ shed_cool' = [t \in Steps |-> SolveShed(CoolShortfall(t))]
    /\ charge_flag' = [i \in 1..num_storages |-> [t \in Steps |->
                          IF ChargeGateWith(i, t, 0) THEN 0 ELSE 1]]
    /\ discharge_flag' = [i \in 1..num_storages |-> [t \in Steps |->
                          IF DischargeGateWith(i, t, 0) THEN 0 ELSE 1]]
    /\ \E new_soc \in SocSolutions :
          /\ soc' = new_soc
          /\ invest_units_stor' = [i \in 1..num_storages |->
                SolveUnits({u \in 0..MaxUnits : \A t \in Steps :
                    StoragePowerWith(i, t, u) /\ StorageEnergyWith(i, u, new_soc[i][t])})]
    /\ invest_units_conv' = [i \in 1..num_converters |->
          SolveUnits({u \in 0..MaxUnits : \A t \in Steps :
              ConverterCapacityWith(i, t, u)})]
    /\ stage' = "tighten"
    /\ UNCHANGED <<pc, config, full_data, typical_data, day_weights, V, status,
                   objective_value, region, call, run_vars>>
    /\ ~Infeasible'

\* From the point Presolve kept the solver moves one variable of the region.
CanMove == pc = "solving" /\ stage = "tighten"

SetUnitsConv ==
    /\ CanMove
    /\ \E i \in RegionConverters : \E u \in 0..MaxUnits :
          /\ u # invest_units_conv[i]
          /\ invest_units_conv' = [invest_units_conv EXCEPT ![i] = u]
    /\ stage' = "moved"
    /\ UNCHANGED <<pc, config, full_data, typical_data, day_weights, invest_units_stor,
                   V, soc, charge_flag, discharge_flag, shed_elec, shed_heat, shed_cool,
                   status, objective_value, region, call, run_vars>>

SetUnitsStor ==
    /\ CanMove
    /\ \E i \in RegionStorages : \E u \in 0..MaxUnits :
          /\ u # invest_units_stor[i]
          /\ invest_units_stor' = [invest_units_stor EXCEPT ![i] = u]
    /\ stage' = "moved"
    /\ UNCHANGED <<pc, config, full_data, typical_data, day_weights, invest_units_conv,
                   V, soc, charge_flag, discharge_flag, shed_elec, shed_heat, shed_cool,
                   status, objective_value, region, call, run_vars>>

SetSoc ==
    /\ CanMove
    /\ \E i \in RegionStorages : \E t \in region.hours : \E v \in 0..MaxSoc :
          /\ v # soc[i][t]
          /\ soc' = [soc EXCEPT ![i][t] = v]
    /\ stage' = "moved"
    /\ UNCHANGED <<pc, config, full_data, typical_data, day_weights, invest_units_conv,
                   invest_units_stor, V, charge_flag, discharge_flag, shed_elec,
                   shed_heat, shed_cool, status, objective_value, region, call, run_vars>>

SetChargeFlag ==
    /\ CanMove
    /\ \E i \in RegionStorages : \E t \in region.hours :
          charge_flag' = [charge_flag EXCEPT ![i][t] = 1 - charge_flag[i][t]]
    /\ stage' = "moved"
    /\ UNCHANGED <<pc, config, full_data, typical_data, day_weights, invest_units_conv,
                   invest_units_stor, V, soc, discharge_flag, shed_elec, shed_heat,
                   shed_cool, status, objective_value, region, call, run_vars>>

SetDischargeFlag ==
    /\ CanMove
    /\ \E i \in RegionStorages : \E t \in region.hours :
          discharge_flag' = [discharge_flag EXCEPT ![i][t] = 1 - discharge_flag[i][t]]
    /\ stage' = "moved"
    /\ UNCHANGED <<pc, config, full_data, typical_data, day_weights, invest_units_conv,
                   invest_units_stor, V, soc, charge_flag, shed_elec, shed_heat,
                   shed_cool, status, objective_value, region, call, run_vars>>

SetShed ==
    /\ CanMove
    /\ \E t \in region.hours : \E v \in 0..MaxShed :
          \/ v # shed_elec[t] /\ shed_elec' = [shed_elec EXCEPT ![t] = v]
                /\ UNCHANGED <<shed_heat, shed_cool>>
          \/ v # shed_heat[t] /\ shed_heat' = [shed_heat EXCEPT ![t] = v]
                /\ UNCHANGED <<shed_elec, shed_cool>>
          \/ v # shed_cool[t] /\ shed_cool' = [shed_cool EXCEPT ![t] = v]
                /\ UNCHANGED <<shed_elec, shed_heat>>
    /\ stage' = "moved"
    /\ UNCHANGED <<pc, config, full_data, typical_data, day_weights, invest_units_conv,
                   invest_units_stor, V, soc, charge_flag, discharge_flag, status,
                   objective_value, region, call, run_vars>>

\* problem.solve returns: the point the solver holds is feasible, the status is
\* optimal, or optimal_inaccurate, and the objective is evaluated there.
ReturnOptimal ==
    /\ pc = "solving"
    /\ stage \in {"tighten", "moved"}
    /\ ~Infeasible
    /\ \E st \in {"optimal", "optimal_inaccurate"} : status' = st
    /\ objective_value' = objective
    /\ pc' = "solved"
    /\ UNCHANGED <<config, full_data, typical_data, day_weights, decision_vars, region,
                   stage, call, run_vars>>

RECURSIVE LastSlash(_, _)
\* The position of the last "/" among the first n characters of path, or 0.
LastSlash(path, n) ==
    IF n = 0 THEN 0
    ELSE IF SubSeq(path, n, n) = "/" THEN n
    ELSE LastSlash(path, n - 1)

\* os.path.basename(path)
basename(path) == SubSeq(path, LastSlash(path, Len(path)) + 1, Len(path))

RECURSIVE LastDot(_, _)
\* The position of the last "." among the first n characters of name, or 0.
LastDot(name, n) ==
    IF n = 0 THEN 0
    ELSE IF SubSeq(name, n, n) = "." THEN n
    ELSE LastDot(name, n - 1)

\* os.path.splitext(name)[0]; a leading dot starts no extension.
splitext(name) ==
    IF LastDot(name, Len(name)) <= 1 THEN name
    ELSE SubSeq(name, 1, LastDot(name, Len(name)) - 1)

scenario_name(path) == splitext(basename(path))

\* The files of a scenario, under results/, in the order they are written.
OutputSuffixes ==
    <<"_energy_balance.csv", "_storage_soc.csv", "_grid_import.csv", "_summary.txt",
      "_constraints.txt">>

OutputFiles(scenario) ==
    {"results/" \o scenario \o OutputSuffixes[k] : k \in 1..Len(OutputSuffixes)}

\* Every status but infeasible taken for a solution.
OnlyInfeasibleFails(st) == st # "infeasible"

\* problem.status in ["optimal", "optimal_inaccurate"]
IsOptimal(st) == st \in {"optimal", "optimal_inaccurate"}

\* problem.solve has returned.
Returned == pc \in {"solved", "unsolved"}

\* The results are written: three tables, the summary and the constraints.
SaveResults ==
    /\ Returned
    /\ IsOptimal(status)
    /\ files' = files \cup OutputFiles(scenario_name(config_path))
    /\ pc' = "done"
    /\ UNCHANGED <<config, full_data, typical_data, day_weights, decision_vars,
                   status, objective_value, region, stage, call, config_path, hub,
                   solver_calls, sweep>>

\* "Problem could not be solved. Status: ..."
ReportStatus ==
    /\ Returned
    /\ ~IsOptimal(status)
    /\ pc' = "done"
    /\ UNCHANGED <<config, full_data, typical_data, day_weights, decision_vars,
                   status, objective_value, region, stage, call, run_vars>>

Next ==
    \/ LoadConfig
    \/ LoadData
    \/ StartSolve
    \/ SetFlow
    \/ Presolve
    \/ SetUnitsConv
    \/ SetUnitsStor
    \/ SetSoc
    \/ SetChargeFlag
    \/ SetDischargeFlag
    \/ SetShed
    \/ PrimaryRaises
    \/ SecondaryRaises
    \/ ReturnStatus
    \/ ReturnOptimal
    \/ SaveResults
    \/ ReportStatus

Spec == Init /\ [][Next]_vars

(***************************************************************************)
(* utils.calculate_annuity_factor on its own: a call with an interest rate *)
(* and a lifetime drawn from small sets, and its return.                   *)
(***************************************************************************)
\* Largest numerator and denominator of the interest rates, and the longest
\* lifetime, of the calls.
MaxRateNum == 3
MaxRateDen == 4
MaxLifetime == 5

\* The interest rates of the calls: the small fractions, and 0.05.
Rates ==
    {Frac(p, q) : p \in 0..MaxRateNum, q \in 1..MaxRateDen} \cup {Frac(1, 20)}

\* The program at a call of fn with args, nothing else having run.
AtCall(fn, args) ==
    /\ pc = "called"
    /\ call = [fn |-> fn, args |-> args, result |-> << >>]
    /\ full_data = << >>
    /\ typical_data = << >>
    /\ day_weights = << >>
    /\ invest_units_conv = << >>
    /\ invest_units_stor = << >>
    /\ V = << >>
    /\ soc = << >>
    /\ charge_flag = << >>
    /\ discharge_flag = << >>
    /\ shed_elec = << >>
    /\ shed_heat = << >>
    /\ shed_cool = << >>
    /\ status = ""
    /\ objective_value = Frac(0, 1)
    /\ region = [branches |-> {}, nodes |-> {}, hours |-> {}]
    /\ stage = ""
    /\ NothingRun

InitAnnuity ==
    /\ config = Default
    /\ \E interest_rate \in Rates : \E lifetime \in 0..MaxLifetime :
          AtCall("calculate_annuity_factor", <<interest_rate, lifetime>>)

\* calculate_annuity_factor(interest_rate, lifetime) returns.
ReturnAnnuity ==
    /\ pc = "called"
    /\ call.fn = "calculate_annuity_factor"
    /\ call' = [call EXCEPT
                  !.result = <<calculate_annuity_factor(call.args[1], call.args[2])>>]
    /\ pc' = "returned"
    /\ UNCHANGED <<config, full_data, typical_data, day_weights, decision_vars, status,
                   objective_value, region, stage, run_vars>>

NextAnnuity == ReturnAnnuity

SpecAnnuity == InitAnnuity /\ [][NextAnnuity]_vars

(***************************************************************************)
(* data_loader.load_and_prepare_data on its own: a call with a data file   *)
(* of some length and config.NUM_DAYS drawn from small sets, and its       *)
(* return.                                                                 *)
(***************************************************************************)
\* Largest number of rows of the data file, and of typical days asked for.
MaxRows == 13
MaxTypicalDays == 4

InitData ==
    /\ \E k \in 0..MaxTypicalDays : config = ConfigFile(k)
    /\ \E n_rows \in 0..MaxRows : AtCall("load_and_prepare_data", <<n_rows>>)

\* load_and_prepare_data() returns or raises, on the data file of
\* call.args[1] rows.
ReturnData ==
    /\ pc = "called"
    /\ call.fn = "load_and_prepare_data"
    /\ call' = [call EXCEPT
                  !.result = <<load_and_prepare_data(DataFile(call.args[1]),
                                                     config.NUM_DAYS)>>]
    /\ pc' = "returned"
    /\ UNCHANGED <<config, full_data, typical_data, day_weights, decision_vars, status,
                   objective_value, region, stage, run_vars>>

NextData == ReturnData

SpecData == InitData /\ [][NextData]_vars

(***************************************************************************)
(* config.load_config on its own: a call on a configuration file drawn     *)
(* from a small set, the module variables holding an earlier               *)
(* configuration, and its return.                                          *)
(***************************************************************************)
\* The module variables before the call: the defaults of the import, and the
\* configuration an earlier scenario loaded.
OldConfigs == {Default, ConfigFile(1)}

\* The sections of the files of the calls: no mapping, an empty mapping, and
\* mappings with some or all of their keys.
SimChoices == {NotMapping, Mapping(<< >>), Mapping([num_days |-> MaxDays])}
EconChoices ==
    {NotMapping, Mapping(<< >>), Mapping([interest_rate |-> One]),
     Mapping([interest_rate |-> One, gas_price_multiplier |-> 2])}
CostChoices ==
    {NotMapping, Mapping(<< >>),
     Mapping([shed_cost_per_mwh |-> [elec |-> 7, heat |-> 5, cool |-> 3]])}

SectionKeys == {"simulation_control", "economic_parameters", "cost_parameters"}
TableKeys == {"investment_costs", "lifetimes", "base_capacities", "component_params"}

\* The top-level keys of the files of the calls: all of them, all but some
\* sections, all but some tables, or none.
KeySets ==
    {(SectionKeys \ absent) \cup TableKeys : absent \in SUBSET SectionKeys}
      \cup {SectionKeys \cup {"lifetimes"}, SectionKeys, {}}

\* The files of the calls: a missing file, a file that does not parse, a
\* document that is no mapping, and the documents with the keys and sections
\* above.
Documents ==
    {Mapping([k \in keys |->
                [SectionsOf(ConfigFile(MaxDays)) EXCEPT
                    !.simulation_control = sim,
                    !.economic_parameters = econ,
                    !.cost_parameters = cost][k]]) :
        keys \in KeySets, sim \in SimChoices, econ \in EconChoices,
        cost \in CostChoices}

CallFiles ==
    {MissingFile, BrokenFile, YamlFile(NotMapping)} \cup {YamlFile(d) : d \in Documents}

InitConfig ==
    \E old \in OldConfigs : \E file \in CallFiles :
        /\ config = old
        /\ AtCall("load_config", <<file, old>>)

\* load_config(config_path) returns or raises, on the file call.args[1].
ReturnConfig ==
    /\ pc = "called"
    /\ call.fn = "load_config"
    /\ config' = load_config(config, call.args[1]).config
    /\ call' = [call EXCEPT !.result = <<load_config(config, call.args[1]).raised>>]
    /\ pc' = "returned"
    /\ UNCHANGED <<full_data, typical_data, day_weights, decision_vars, status,
                   objective_value, region, stage, run_vars>>

NextConfig == ReturnConfig

SpecConfig == InitConfig /\ [][NextConfig]_vars

(***************************************************************************)
(* mes_model.build_mes_model on its own: the connect calls one after the   *)
(* other, then graph_hub.build(); and the function called a second time.   *)
(***************************************************************************)
\* The connect calls made in an order that depends on the call of the
\* function: the second build runs its loops backwards.
NextBranchByCall(built) ==
    IF call.result = << >>
    THEN global_branch_list[Len(built) + 1]
    ELSE global_branch_list[Len(global_branch_list) - Len(built)]

\* The branch the next connect call adds, built being the branches connected
\* so far: the loops of build_mes_model run in the order of their lists.
NextBranch(built) == global_branch_list[Len(built) + 1]

InitBuild ==
    /\ pc = "building"
    /\ call = [fn |-> "build_mes_model", args |-> << >>, result |-> << >>]
    /\ config = ConfigFile(MaxDays)
    /\ full_data = << >>
    /\ typical_data = << >>
    /\ day_weights = << >>
    /\ invest_units_conv = << >>
    /\ invest_units_stor = << >>
    /\ V = << >>
    /\ soc = << >>
    /\ charge_flag = << >>
    /\ discharge_flag = << >>
    /\ shed_elec = << >>
    /\ shed_heat = << >>
    /\ shed_cool = << >>
    /\ status = ""
    /\ objective_value = Frac(0, 1)
    /\ region = [branches |-> {}, nodes |-> {}, hours |-> {}]
    /\ stage = ""
    /\ NothingRun

\* What the build leaves alone.
build_unchanged ==
    <<config, full_data, typical_data, day_weights, decision_vars, status,
      objective_value, region, stage, config_path, solver_calls, files, sweep>>

\* graph_hub.connect(src, src_port, dst, dst_port)
Connect ==
    /\ pc = "building"
    /\ Len(hub) < Len(global_branch_list)
    /\ hub' = Append(hub, NextBranch(hub))
    /\ UNCHANGED <<build_unchanged, pc, call>>

\* hub = graph_hub.build(): the hub is returned with its global_branches.
Build ==
    /\ pc = "building"
    /\ Len(hub) = Len(global_branch_list)
    /\ call' = [call EXCEPT
                  !.result = Append(@, [k \in 1..Len(hub) |-> BranchName(hub[k])])]
    /\ pc' = "built"
    /\ UNCHANGED <<build_unchanged, hub>>

\* build_mes_model is called again, on a new graph.
BuildAgain ==
    /\ pc = "built"
    /\ Len(call.result) = 1
    /\ hub' = << >>
    /\ pc' = "building"
    /\ UNCHANGED <<build_unchanged, call>>

NextBuild ==
    \/ Connect
    \/ Build
    \/ BuildAgain

SpecBuild == InitBuild /\ [][NextBuild]_vars

(***************************************************************************)
(* run_batch_analysis: the sweeps.  A sweep sees of run_optimization only  *)
(* how it ends: with its summary written, without it, or with an exception.*)
(***************************************************************************)
\* Largest number of days settings, and of multipliers of each kind, swept.
MaxPoints == 3
MaxMultipliers == 2

days_to_test == <<2, 4, 6, 8, 10, 12, 14, 16, 18, 20, 30, 50>>
\* The multipliers, in hundredths.
gas_price_multipliers == <<100, 90, 80, 70, 60, 50, 40, 30, 20, 10, 0>>
gas_invest_multipliers == <<100, 90, 80, 70, 60, 50, 40, 30, 20, 10, 0>>

\* The first n entries of a list.
Head_n(list, n) == SubSeq(list, 1, IF n < Len(list) THEN n ELSE Len(list))

\* The sweep points of a sweep in loop order: the days, or the pairs of a
\* price multiplier (outer loop) and an investment multiplier (inner loop).
Points(name) ==
    IF name = "run_days_sweep"
    THEN [k \in 1..Len(Head_n(days_to_test, MaxPoints)) |-> <<days_to_test[k]>>]
    ELSE LET np == Len(Head_n(gas_price_multipliers, MaxMultipliers))
             ni == Len(Head_n(gas_invest_multipliers, MaxMultipliers))
         IN  [k \in 1..(np * ni) |->
                <<gas_price_multipliers[((k - 1) \div ni) + 1],
                  gas_invest_multipliers[((k - 1) % ni) + 1]>>]

\* scenario_name of a sweep point.
ScenarioOf(name, point) ==
    IF name = "run_days_sweep"
    THEN "days_" \o ToString(point[1])
    ELSE "gas_p" \o ToString(point[1]) \o "_i" \o ToString(point[2])

\* The baseline configurations a sweep may read: a complete one, one that
\* lacks the sections the sweep writes into, and none that can be read.
Baselines == {"complete", "no_sections", "unreadable"}

\* What the results directory may hold when a sweep starts: nothing, or the
\* output files an earlier execution of the sweep wrote for its first point,
\* or for all its points.  Neither sweep clears the directory.
EarlierFiles(name) ==
    { {},
      OutputFiles(ScenarioOf(name, Points(name)[1])),
      UNION {OutputFiles(ScenarioOf(name, Points(name)[k])) :
                k \in 1..Len(Points(name))} }

\* The ways run_optimization returns without having written its output files.
NoSummaryOutcomes == {"config error", "no data", "not optimal"}

InitBatch ==
    /\ pc = "sweep_called"
    /\ \E name \in {"run_days_sweep", "run_gas_viability_sweep"} :
          sweep = [name |-> name, base_config |-> "", next |-> 1,
                   all_results |-> << >>, log |-> << >>]
    /\ config = Default
    /\ full_data = << >>
    /\ typical_data = << >>
    /\ day_weights = << >>
    /\ invest_units_conv = << >>
    /\ invest_units_stor = << >>
    /\ V = << >>
    /\ soc = << >>
    /\ charge_flag = << >>
    /\ discharge_flag = << >>
    /\ shed_elec = << >>
    /\ shed_heat = << >>
    /\ shed_cool = << >>
    /\ status = ""
    /\ objective_value = Frac(0, 1)
    /\ region = [branches |-> {}, nodes |-> {}, hours |-> {}]
    /\ stage = ""
    /\ call = NoCall
    /\ config_path = ""
    /\ hub = << >>
    /\ solver_calls = << >>
    /\ files \in EarlierFiles(sweep.name)

\* What a sweep leaves alone: the variables of run_optimization.
batch_unchanged ==
    <<config, full_data, typical_data, day_weights, decision_vars, status,
      objective_value, region, stage, call, config_path, hub, solver_calls>>

\* The baseline configuration is read; when it cannot be, the sweep reports
\* and returns.
ReadBaseline ==
    /\ pc = "sweep_called"
    /\ \E base \in Baselines :
          /\ sweep' = [sweep EXCEPT !.base_config = base]
          /\ pc' = IF base = "unreadable" THEN "swept"
                   ELSE IF base = "no_sections" /\ sweep.name = "run_gas_viability_sweep"
                   THEN "crashed"
                   ELSE "looping"
    /\ UNCHANGED <<batch_unchanged, files>>

\* The sweep is at a point of its loop.
AtPoint == pc = "looping" /\ sweep.next <= Len(Points(sweep.name))
ThisPoint == Points(sweep.name)[sweep.next]

\* The temporary configuration of the point cannot be made from the baseline:
\* the assignment into a section is outside the try, and its exception leaves
\* the sweep.
PrepareFails ==
    /\ AtPoint
    /\ sweep.base_config = "no_sections"
    /\ pc' = "crashed"
    /\ UNCHANGED <<batch_unchanged, files, sweep>>

\* The sweep gives up at the first exception of a scenario.
AbortSweep(sw, point, what) ==
    [sw EXCEPT !.next = Len(Points(sw.name)) + 1,
               !.log = Append(@, [point |-> point, outcome |-> what])]

\* except Exception: the error is printed and the loop goes on to the next
\* point; nothing is appended to all_results.
SkipScenario(sw, point, what) ==
    [sw EXCEPT !.next = @ + 1,
               !.log = Append(@, [point |-> point, outcome |-> what])]

\* parse_summary_file(summary_path): the metrics of the summary, or an error
\* entry when there is no such file.
parse_summary_file(summary_path) ==
    IF summary_path \in files
    THEN [error |-> "", summary |-> summary_path]
    ELSE [error |-> "File not found", summary |-> ""]

\* all_results.append(result), the result carrying the point.
AppendResult(sw, point, result, what) ==
    [sw EXCEPT !.next = @ + 1,
               !.all_results = Append(@, [point |-> point, result |-> result]),
               !.log = Append(@, [point |-> point, outcome |-> what])]

\* Writing the temporary configuration of the point raises.
ScenarioWriteRaises ==
    /\ AtPoint
    /\ sweep.base_config = "complete"
    /\ sweep' = SkipScenario(sweep, ThisPoint, "write raised")
    /\ UNCHANGED <<batch_unchanged, pc, files>>

\* run_optimization raises on the configuration of the point.
ScenarioRunRaises ==
    /\ AtPoint
    /\ sweep.base_config = "complete"
    /\ sweep' = SkipScenario(sweep, ThisPoint, "run raised")
    /\ UNCHANGED <<batch_unchanged, pc, files>>

\* run_optimization returns without having written output files: after a
\* configuration error, a missing data file or a status that is not optimal.
\* The summary path of the point is parsed.
ScenarioReturns ==
    /\ AtPoint
    /\ sweep.base_config = "complete"
    /\ \E why \in NoSummaryOutcomes :
          sweep' = AppendResult(sweep, ThisPoint,
                     parse_summary_file("results/" \o ScenarioOf(sweep.name, ThisPoint)
                                          \o "_summary.txt"),
                     why)
    /\ UNCHANGED <<batch_unchanged, pc, files>>

\* run_optimization writes the output files of the point, and the summary is
\* parsed.
ScenarioSolved ==
    /\ AtPoint
    /\ sweep.base_config = "complete"
    /\ files' = files \cup OutputFiles(ScenarioOf(sweep.name, ThisPoint))
    /\ sweep' = AppendResult(sweep, ThisPoint,
                     [error |-> "",
                      summary |-> "results/" \o ScenarioOf(sweep.name, ThisPoint)
                                    \o "_summary.txt"],
                     "solved")
    /\ UNCHANGED <<batch_unchanged, pc>>

\* After the loop the results, if any, are written to the CSV of the sweep.
SaveSweep ==
    /\ pc = "looping"
    /\ sweep.next > Len(Points(sweep.name))
    /\ files' = IF sweep.all_results = << >> THEN files
                ELSE files \cup {"batch_results/" \o sweep.name \o ".csv"}
    /\ pc' = "swept"
    /\ UNCHANGED <<batch_unchanged, sweep>>

NextBatch ==
    \/ ReadBaseline
    \/ PrepareFails
    \/ ScenarioWriteRaises
    \/ ScenarioRunRaises
    \/ ScenarioReturns
    \/ ScenarioSolved
    \/ SaveSweep

SpecBatch == InitBatch /\ [][NextBatch]_vars

(***************************************************************************)
(* The properties of the program, stated on the hub itself: on the nodes   *)
(* and ports the branches connect, not on the names of the branches.       *)
(***************************************************************************)
RECURSIVE FlowOn(_, _, _)
\* The total flow at t on the first n of the branches.
FlowOn(branches, n, t) ==
    IF n = 0 THEN 0 ELSE FlowOn(branches, n - 1, t) + V[branches[n]][t]

\* The branches that leave, and those that enter, port port of node.
BranchesLeaving(node, port) ==
    SelectSeq(AllIdx, LAMBDA k :
        global_branch_list[k].src = node /\ global_branch_list[k].sport = port)
BranchesEntering(node, port) ==
    SelectSeq(AllIdx, LAMBDA k :
        global_branch_list[k].dst = node /\ global_branch_list[k].dport = port)

Leaving(node, port, t) ==
    FlowOn(BranchesLeaving(node, port), Len(BranchesLeaving(node, port)), t)
Entering(node, port, t) ==
    FlowOn(BranchesEntering(node, port), Len(BranchesEntering(node, port)), t)

RECURSIVE LeavingAll(_, _, _)
\* The total flow at t leaving the first n of the <<node, port>> pairs ports.
LeavingAll(ports, n, t) ==
    IF n = 0 THEN 0
    ELSE LeavingAll(ports, n - 1, t) + Leaving(ports[n][1], ports[n][2], t)

RECURSIVE EnteringAll(_, _, _)
\* The total flow at t entering the first n of the <<node, port>> pairs ports.
EnteringAll(ports, n, t) ==
    IF n = 0 THEN 0
    ELSE EnteringAll(ports, n - 1, t) + Entering(ports[n][1], ports[n][2], t)

Solved == pc = "solved"
StorageIdx == 1..num_storages
ConverterIdx == 1..num_converters
Days == 0..(num_days - 1)
FirstHour(d) == d * num_hours
LastHour(d) == (d + 1) * num_hours - 1
ChargeIn(i, t) == Entering(storages[i], "energy_in", t)
DischargeOut(i, t) == Leaving(storages[i], "energy_out", t)

\* C1: in every solution the solver returns, for every storage unit and every
\* representative day, the state of charge at the first hour of the day equals
\* the state of charge at the last hour of the same day.
C1_DailyClosure ==
    Solved => \A i \in StorageIdx : \A d \in Days :
                 soc[i][FirstHour(d)] = soc[i][LastHour(d)]

\* A solution in which a storage unit is charged in one hour of a day and
\* discharged in a later one, its state of charge rising in between.
C1_Witness ==
    /\ Solved
    /\ \E i \in StorageIdx : \E d \in Days :
          \E t1, t2 \in FirstHour(d)..LastHour(d) :
              /\ t1 < t2
              /\ ChargeIn(i, t1) > 0
              /\ DischargeOut(i, t2) > 0
              /\ soc[i][t1] > soc[i][FirstHour(d)]

\* C2: in every solution, for every storage unit and every timestep, the charge
\* flag and the discharge flag are not both 1, a positive charge flow has the
\* charge flag at 1, a positive discharge flow has the discharge flag at 1, and
\* the charge flow and the discharge flow are not both positive.
C2_FlagsExclusive ==
    Solved => \A i \in StorageIdx : \A t \in Steps :
                 /\ ~(charge_flag[i][t] = 1 /\ discharge_flag[i][t] = 1)
                 /\ ChargeIn(i, t) > 0 => charge_flag[i][t] = 1
                 /\ DischargeOut(i, t) > 0 => discharge_flag[i][t] = 1
                 /\ ~(ChargeIn(i, t) > 0 /\ DischargeOut(i, t) > 0)

\* A solution with a storage unit charging in one timestep, its charge flag at
\* 1, and discharging in another, its discharge flag at 1.
C2_Witness ==
    /\ Solved
    /\ \E i \in StorageIdx : \E t1, t2 \in Steps :
          /\ ChargeIn(i, t1) > 0 /\ charge_flag[i][t1] = 1
          /\ DischargeOut(i, t2) > 0 /\ discharge_flag[i][t2] = 1

\* The efficiency the configuration gives output port port of converter name:
\* eta_w for elec_out and eta_q for heat_out of a back-pressure unit, the one
\* configured ratio of a single-output converter.
Efficiency(name, port) ==
    LET params == config.COMPONENT_PARAMS[name]
    IN  IF ClassOf(name) = "CHPBackPressure"
        THEN (IF port = "elec_out" THEN Get(params, "eta_w") ELSE Get(params, "eta_q"))
        ELSE (CHOOSE item \in {params[k] : k \in 1..Len(params)} : TRUE)[2]

\* C3: in every solution, for every converter, every output port and every
\* timestep, the total flow leaving the port equals exactly the total flow
\* entering the converter's input port times the efficiency of the port.
C3_Conversion ==
    Solved => \A i \in ConverterIdx : \A t \in Steps :
                 LET name == converters[i]
                     class == ClassOf(name)
                     outs == output_ports(class)
                 IN  \A j \in 1..Len(outs) :
                         Leaving(name, outs[j], t) * Efficiency(name, outs[j])[2]
                           = Entering(name, input_ports(class)[1], t)
                               * Efficiency(name, outs[j])[1]

\* A solution in which a back-pressure unit whose two efficiencies differ burns
\* gas and delivers electricity and heat.
C3_Witness ==
    /\ Solved
    /\ \E t \in Steps :
          /\ Entering("CHP_A", "fuel_in", t) > 0
          /\ Leaving("CHP_A", "elec_out", t) > 0
          /\ Leaving("CHP_A", "heat_out", t) > Leaving("CHP_A", "elec_out", t)

\* The converter input ports among the consumers of a bus: those of components,
\* not the load.
ConverterInputs(consumers) == SelectSeq(consumers, LAMBDA c : c[1] \in NameSet)

\* What the producers and the storage of a carrier give at t, and what its
\* converters and its storage take.
Supply(producers, storage_node, t) ==
    LeavingAll(producers, Len(producers), t) + Leaving(storage_node, "energy_out", t)
Use(consumers, storage_node, t) ==
    EnteringAll(ConverterInputs(consumers), Len(ConverterInputs(consumers)), t)
      + Entering(storage_node, "energy_in", t)

\* C4: in every solution, for electricity, heat and cooling and every timestep,
\* the total flow leaving the carrier's producer ports and its storage
\* discharge port equals the total flow entering the carrier's converter input
\* ports and its storage charge port, plus the demand of the timestep, minus
\* the shed variable of the timestep.
C4_NodeBalance ==
    Solved => \A t \in Steps :
                 /\ Supply(elec_producers, "Elec_Storage", t)
                      = Use(elec_consumers, "Elec_Storage", t)
                          + typical_data[t + 1].elec_load - shed_elec[t]
                 /\ Supply(heat_producers, "Heat_Storage", t)
                      = Use(heat_consumers, "Heat_Storage", t)
                          + typical_data[t + 1].heating_load - shed_heat[t]
                 /\ Supply(cool_producers, "Cooling_Storage", t)
                      = Use(cool_consumers, "Cooling_Storage", t)
                          + typical_data[t + 1].cooling_load - shed_cool[t]

\* A solution in which heat feeds the absorption chiller, whose cooling serves
\* the cooling load: a producer, a converter input and a shed demand at once.
C4_Witness ==
    /\ Solved
    /\ \E t \in Steps :
          /\ Entering("WARP", "heat_in", t) > 0
          /\ Leaving("WARP", "cool_out", t) > 0
          /\ shed_heat[t] > 0

GasImported(t) == Leaving("Gas_Import", "out", t)
GasBurnt(t) ==
    Entering("CHP_A", "fuel_in", t) + Entering("CHP_B", "fuel_in", t)
      + Entering("ICE", "fuel_in", t) + Entering("Gas_Boiler", "fuel_in", t)

\* C5: at every timestep the gas balance of the problem is the equality of the
\* total gas import and the total gas entering the fuel_in ports of CHP_A,
\* CHP_B, ICE and Gas_Boiler, whatever the demands and the sheds are; so in
\* every solution the two totals are equal.
C5_GasBalance ==
    /\ pc \in {"solving", "solved"} =>
          \A t \in Steps : GasBalance(t) <=> (GasImported(t) = GasBurnt(t))
    /\ Solved => \A t \in Steps : GasImported(t) = GasBurnt(t)

\* A solution that imports gas, with heat demand shed in the same timestep.
C5_Witness ==
    /\ Solved
    /\ \E t \in Steps : GasImported(t) > 0 /\ shed_heat[t] > 0

\* C6: in every solution and every timestep, the flow entering a converter's
\* input port is at most its units times its base capacity; the charge flow and
\* the discharge flow of a storage are each at most its units times its power
\* base and its state of charge is at most its units times its capacity base;
\* the units are non-negative integers.
C6_Capacity ==
    Solved =>
        /\ \A i \in ConverterIdx :
              /\ invest_units_conv[i] \in Nat
              /\ \A t \in Steps :
                    Entering(converters[i], input_ports(ClassOf(converters[i]))[1], t)
                      <= invest_units_conv[i] * config.BASE_CAPACITIES[converters[i]].value
        /\ \A i \in StorageIdx :
              /\ invest_units_stor[i] \in Nat
              /\ \A t \in Steps :
                    /\ ChargeIn(i, t)
                         <= invest_units_stor[i] * config.BASE_CAPACITIES[storages[i]].power
                    /\ DischargeOut(i, t)
                         <= invest_units_stor[i] * config.BASE_CAPACITIES[storages[i]].power
                    /\ soc[i][t]
                         <= invest_units_stor[i] * config.BASE_CAPACITIES[storages[i]].capacity

\* A solution in which a converter feeds a storage: the converter takes input,
\* the storage is charged and holds energy, and both have units installed.
C6_Witness ==
    /\ Solved
    /\ \E i \in ConverterIdx : \E k \in StorageIdx : \E t \in Steps :
          /\ Entering(converters[i], input_ports(ClassOf(converters[i]))[1], t) > 0
          /\ invest_units_conv[i] > 0
          /\ ChargeIn(k, t) > 0
          /\ soc[k][t] > 0
          /\ invest_units_stor[k] > 0

\* The hour before t: the preceding hour of the day of t, and for the first
\* hour of a day the last hour of that day.
Prev(t) == IF t % num_hours = 0 THEN t + num_hours - 1 ELSE t - 1
DayOf(t) == t \div num_hours
HoursOf(d) == FirstHour(d)..LastHour(d)

\* soc[t] = soc[prev] + charge[t] * eta_c - discharge[t] / eta_d for storage i,
\* with the states of charge row.
Recursion(i, t, row) ==
    LET c == Get(config.COMPONENT_PARAMS[storages[i]], "eta_c")
        e == Get(config.COMPONENT_PARAMS[storages[i]], "eta_d")
    IN  row[t] * c[2] * e[1]
          = row[Prev(t)] * c[2] * e[1] + ChargeIn(i, t) * c[1] * e[1]
              - DischargeOut(i, t) * e[2] * c[2]

\* The states of charge of storage i with those of day d replaced by r.
WithDay(i, d, r) == [t \in Steps |-> IF t \in HoursOf(d) THEN r[t] ELSE soc[i][t]]

\* C7: in every solution, for every storage unit and every timestep, the state
\* of charge is that of the hour before, cyclically within the day, plus the
\* charge flow times eta_c minus the discharge flow over eta_d; and no
\* constraint ties a day to another: the states of charge of one day can be
\* replaced by any others that satisfy the recursion of that day and the
\* capacity, and the constraints on the states of charge still hold on every
\* day.
C7_SocRecursion ==
    Solved => \A i \in StorageIdx :
                 /\ \A t \in Steps : Recursion(i, t, soc[i])
                 /\ \A d \in Days : \A r \in [HoursOf(d) -> 0..MaxSoc] :
                       LET row == WithDay(i, d, r)
                       IN  (\A t \in HoursOf(d) :
                                /\ Recursion(i, t, row)
                                /\ StorageEnergyWith(i, invest_units_stor[i], row[t]))
                             => \A e \in Days :
                                    SocRecursionWith(i, e, row) /\ SocClosureWith(i, e, row)

\* A solution in which a storage unit is charged and discharged within a day,
\* and ends that day at a state of charge other than the one the next day
\* starts at.
C7_Witness ==
    /\ Solved
    /\ \E i \in StorageIdx : \E d \in Days :
          /\ d + 1 \in Days
          /\ soc[i][LastHour(d)] # soc[i][FirstHour(d + 1)]
          /\ \E t \in HoursOf(d) : ChargeIn(i, t) > 0 /\ soc[i][t] # soc[i][Prev(t)]

ElecImported(t) == Leaving("Elec_Import", "out", t)

\* The cost of timestep t: gas import at the gas price, electricity import at
\* the electricity price, and the shed penalties.
StepCost(t) ==
    GasImported(t) * (typical_data[t + 1].gas_price * 100 * config.GAS_PRICE_MULTIPLIER)
      + ElecImported(t) * typical_data[t + 1].elec_price
      + shed_elec[t] * config.SHED_COST_PER_MWH.elec
      + shed_heat[t] * config.SHED_COST_PER_MWH.heat
      + shed_cool[t] * config.SHED_COST_PER_MWH.cool

\* The annualized investment cost of units units of component name, on the
\* capacity basis basis.
Investment(name, units, basis) ==
    FracScale(units * basis * config.INVESTMENT_COSTS[name],
              calculate_annuity_factor(config.INTEREST_RATE, config.LIFETIMES[name]))

\* C8: the objective the solver returns is the annualized investment cost, over
\* the converters on their base capacity and over the storages on their
\* capacity base, plus the operational cost, in which every timestep counts
\* once, with the weight of its own day.
C8_Objective ==
    Solved =>
        FracEq(objective_value,
               FracAdd(
                   FracAdd(
                       FracSum([i \in ConverterIdx |->
                                   Investment(converters[i], invest_units_conv[i],
                                       config.BASE_CAPACITIES[converters[i]].value)],
                               num_converters),
                       FracSum([i \in StorageIdx |->
                                   Investment(storages[i], invest_units_stor[i],
                                       config.BASE_CAPACITIES[storages[i]].capacity)],
                               num_storages)),
                   FracSum([n \in 1..(num_days * num_hours) |->
                               FracScale(StepCost(n - 1), day_weights[DayOf(n - 1) + 1])],
                           num_days * num_hours)))

\* A solution with units installed, in which energy is imported on the second
\* day and demand is shed on the first.
C8_Witness ==
    /\ Solved
    /\ \E i \in ConverterIdx : invest_units_conv[i] > 0
    /\ \E t \in HoursOf(1) : GasImported(t) + ElecImported(t) > 0
    /\ \E t \in HoursOf(0) : shed_elec[t] > 0

\* (1 + i)^n as a fraction, for the rate i = p / q.
Growth(i, n) == Frac(Pow(i[1] + i[2], n), Pow(i[2], n))

\* C9: calculate_annuity_factor(i, n) returns 1 whenever n = 0, also when
\* i = 0; returns 1 / n when i = 0 and n > 0; returns
\* i (1 + i)^n / ((1 + i)^n - 1) when i > 0 and n > 0; so (0, 5) gives 1/5 and
\* (0.05, 0) gives 1.
C9_AnnuityFactor ==
    (pc = "returned" /\ call.fn = "calculate_annuity_factor") =>
        LET i == call.args[1]
            n == call.args[2]
            result == call.result[1]
        IN  /\ n = 0 => result = <<1, 1>>
            /\ (i[1] = 0 /\ n > 0) => result = Frac(1, n)
            /\ (i[1] > 0 /\ n > 0) =>
                  result = Frac(i[1] * Growth(i, n)[1],
                                i[2] * (Growth(i, n)[1] - Growth(i, n)[2]))
            /\ (i = <<0, 1>> /\ n = 5) => result = <<1, 5>>
            /\ (i = <<1, 20>> /\ n = 0) => result = <<1, 1>>

\* The call with both the rate and the lifetime 0 has returned.
C9_Witness ==
    /\ pc = "returned"
    /\ call.fn = "calculate_annuity_factor"
    /\ call.args = <<Frac(0, 1), 0>>
    /\ call.result = <<Frac(1, 1)>>

\* C10: for 1 <= num_typical_days <= num_total_days, load_and_prepare_data
\* returns a table of exactly num_typical_days times the hours of a day rows,
\* and a weight vector of length num_typical_days whose every entry is
\* num_total_days / num_typical_days, so that the weights sum to
\* num_total_days.
C10_TypicalDays ==
    (pc = "returned" /\ call.fn = "load_and_prepare_data") =>
        LET num_total_days == call.args[1] \div NumHours
            num_typical_days == config.NUM_DAYS
            result == call.result[1]
        IN  (1 <= num_typical_days /\ num_typical_days <= num_total_days) =>
                /\ result.raised = ""
                /\ Len(result.typical_days_data) = num_typical_days * NumHours
                /\ Len(result.day_weights) = num_typical_days
                /\ \A d \in 1..num_typical_days :
                      FracEq(result.day_weights[d], <<num_total_days, num_typical_days>>)
                /\ FracSum(result.day_weights, Len(result.day_weights))
                     = <<num_total_days, 1>>

\* A call has returned with fewer typical days than the file has days, their
\* number not dividing the number of days of the file.
C10_Witness ==
    /\ pc = "returned"
    /\ call.fn = "load_and_prepare_data"
    /\ call.result[1].raised = ""
    /\ config.NUM_DAYS > 1
    /\ (call.args[1] \div NumHours) % config.NUM_DAYS # 0
    /\ Len(call.result[1].day_weights) = config.NUM_DAYS

\* No variable is declared.
NoVariables ==
    /\ invest_units_conv = << >>
    /\ invest_units_stor = << >>
    /\ V = << >>
    /\ soc = << >>
    /\ charge_flag = << >>
    /\ discharge_flag = << >>
    /\ shed_elec = << >>
    /\ shed_heat = << >>
    /\ shed_cool = << >>

\* More representative days are asked for than the data read has whole days.
TooManyDays ==
    /\ full_data # << >>
    /\ config.NUM_DAYS > Len(full_data) \div NumHours

\* C11: when the configured number of representative days exceeds the number
\* of whole days of the data, the loader fails before it selects a row or
\* computes a weight, and run_optimization ends there: no hub is built, no
\* variable is declared, no solver is called and no file is written.
C11_FailFast ==
    TooManyDays =>
        /\ pc = "raised"
        /\ typical_data = << >>
        /\ day_weights = << >>
        /\ hub = << >>
        /\ NoVariables
        /\ solver_calls = << >>
        /\ status = ""
        /\ files = {}

\* The data has been read and has one whole day, two being asked for.
C11_Witness ==
    /\ TooManyDays
    /\ pc = "raised"
    /\ config.NUM_DAYS = Len(full_data) \div NumHours + 1

\* What the file sets a module variable to: the value of its key, or the
\* fixed default of the variable when the key or its section is missing.
FileValue(file, section, key, default) ==
    LET doc == file.config_data.items
        items == IF section = "" THEN doc
                 ELSE IF section \in DOMAIN doc THEN doc[section].items
                 ELSE << >>
    IN  IF key \in DOMAIN items THEN items[key] ELSE default

\* The configuration determined by the file alone.
FileAlone(file) ==
    [ NUM_DAYS |-> FileValue(file, "simulation_control", "num_days", 8),
      INTEREST_RATE |->
          FileValue(file, "economic_parameters", "interest_rate", Frac(2, 25)),
      GAS_PRICE_MULTIPLIER |->
          FileValue(file, "economic_parameters", "gas_price_multiplier", 1),
      SHED_COST_PER_MWH |->
          FileValue(file, "cost_parameters", "shed_cost_per_mwh", << >>),
      INVESTMENT_COSTS |-> FileValue(file, "", "investment_costs", << >>),
      LIFETIMES |-> FileValue(file, "", "lifetimes", << >>),
      BASE_CAPACITIES |-> FileValue(file, "", "base_capacities", << >>),
      COMPONENT_PARAMS |-> FileValue(file, "", "component_params", << >>) ]

\* C12: after a call of load_config, either all eight module variables are
\* determined by the loaded file alone, a missing key taking its fixed
\* default, or the call raised and all eight hold their values from before
\* the call: never a mix of the old and the new configuration.
C12_Wholesale ==
    (pc = "returned" /\ call.fn = "load_config") =>
        IF call.result[1] = ""
        THEN config = FileAlone(call.args[1])
        ELSE config = call.args[2]

\* The configuration of a scenario run: what load_config makes of the file of
\* the run, whatever configuration an earlier scenario left.
OwnConfig == load_config(ConfigFile(1), FileAt(config_path))

\* Something of the scenario exists: data, the hub, a variable, a solver call
\* or an output file.
ScenarioStarted ==
    \/ full_data # << >>
    \/ typical_data # << >>
    \/ hub # << >>
    \/ ~NoVariables
    \/ solver_calls # << >>
    \/ files # {}

\* C13: the configuration of the scenario is fully loaded before the data is
\* loaded, the hub built, a variable declared or a solver called, so that the
\* scenario is built from its own configuration only; and when the load of
\* the configuration fails, the scenario is abandoned with no data, no hub,
\* no solver call and no output file.
C13_ConfigFirst ==
    /\ ScenarioStarted => (OwnConfig.raised = "" /\ config = OwnConfig.config)
    /\ (config_path # "" /\ OwnConfig.raised # "") =>
          (pc = "abandoned" /\ ~ScenarioStarted)
    /\ config_path = "" => (pc = "start" /\ ~ScenarioStarted)

\* A scenario has run to its output files on the configuration of its file.
C13_Witness ==
    /\ pc = "done"
    /\ files # {}
    /\ hub # << >>
    /\ config_path = "configs/scenario.yaml"
    /\ config = ConfigFile(MaxDays)

\* C15 as stated: with any terminal status other than optimal, none of the
\* output files of the scenario is written.
C15_Original ==
    status \notin {"", "optimal"} => files = {}

\* C15, amended: when the solve ends in a terminal status other than optimal
\* and optimal_inaccurate, run_optimization reports the status, writes none
\* of the output files of the scenario, and calls no solver again.
C15_NoOutput ==
    /\ [](status \notin {"", "optimal", "optimal_inaccurate"} =>
            /\ files = {}
            /\ pc \in {"unsolved", "done"})
    /\ [][status \notin {"", "optimal", "optimal_inaccurate"} =>
            /\ solver_calls' = solver_calls
            /\ status' = status
            /\ pc' \in {"unsolved", "done"}]_vars

\* The run is over with the status unbounded, returned by the secondary
\* solver, and no file.
C15_Witness ==
    /\ pc = "done"
    /\ status = "unbounded"
    /\ solver_calls = <<PrimarySolver, SecondarySolver>>
    /\ files = {}

\* C16: the secondary solver is called only after the primary solver was
\* called and raised its error, and at most once in a scenario; once the
\* primary solver has returned a status, the secondary is never called.
C16_Fallback ==
    /\ [](solver_calls \in {<< >>, <<PrimarySolver>>,
                             <<PrimarySolver, SecondarySolver>>})
    /\ [][solver_calls' # solver_calls =>
            \/ solver_calls = << >> /\ solver_calls' = <<PrimarySolver>>
            \/ /\ solver_calls = <<PrimarySolver>>
               /\ solver_calls' = <<PrimarySolver, SecondarySolver>>
               /\ pc = "solving"
               /\ status = ""]_vars
    /\ [][(status # "" /\ solver_calls = <<PrimarySolver>>) =>
              solver_calls' = solver_calls]_vars

\* The secondary solver has returned a solution after the primary raised.
C16_Witness ==
    /\ pc = "solved"
    /\ status = "optimal"
    /\ solver_calls = <<PrimarySolver, SecondarySolver>>

\* The carriers, and the producer and consumer ports declared for each.
Carriers == {"gas", "electricity", "heat", "cooling"}
ToSet(list) == {list[k] : k \in 1..Len(list)}
Producers(carrier) ==
    CASE carrier = "gas" -> {<<"Gas_Import", "out">>}
      [] carrier = "electricity" -> ToSet(elec_producers)
      [] carrier = "heat" -> ToSet(heat_producers)
      [] OTHER -> ToSet(cool_producers)
Consumers(carrier) ==
    CASE carrier = "gas" -> {<<n, "fuel_in">> : n \in ToSet(gas_consumers)}
      [] carrier = "electricity" -> ToSet(elec_consumers)
      [] carrier = "heat" -> ToSet(heat_consumers)
      [] OTHER -> ToSet(cool_consumers)

\* The hub has been built.
HubBuilt == pc = "built"
SrcPort(b) == <<b.src, b.sport>>
DstPort(b) == <<b.dst, b.dport>>
HubBranches == ToSet(hub)
HasBranch(from, to) ==
    \E b \in HubBranches : SrcPort(b) = from /\ DstPort(b) = to

\* The storage nodes of a carrier: the storages fed from a producer port of
\* the carrier or feeding a consumer port of it.
StorageNodes(carrier) ==
    {n \in ToSet(storages) :
        \E b \in HubBranches :
            \/ b.dst = n /\ SrcPort(b) \in Producers(carrier)
            \/ b.src = n /\ DstPort(b) \in Consumers(carrier)}

\* Every producer port of the carrier has a branch to every consumer port.
Complete(carrier) ==
    \A p \in Producers(carrier) : \A q \in Consumers(carrier) : HasBranch(p, q)

\* The carrier has exactly one storage node, charged from every producer and
\* discharging to every consumer.
OneStorage(carrier) ==
    \E n \in ToSet(storages) :
        /\ StorageNodes(carrier) = {n}
        /\ \A p \in Producers(carrier) : HasBranch(p, <<n, "energy_in">>)
        /\ \A q \in Consumers(carrier) : HasBranch(<<n, "energy_out">>, q)

\* C17 as stated: every carrier, gas included, is complete and has exactly
\* one storage node.
C17_Original ==
    HubBuilt => \A carrier \in Carriers : Complete(carrier) /\ OneStorage(carrier)

\* C17, amended: in the hub built, every carrier has a branch from every
\* producer port to every consumer port; electricity, heat and cooling have
\* exactly one storage node each, with a charging branch from every producer
\* and a discharging branch to every consumer; gas has no storage node.
C17_Topology ==
    HubBuilt =>
        /\ \A carrier \in Carriers : Complete(carrier)
        /\ \A carrier \in Carriers \ {"gas"} : OneStorage(carrier)
        /\ StorageNodes("gas") = {}

\* The hub is built, with its 68 branches, the three storages each on its
\* own carrier.
C17_Witness ==
    /\ HubBuilt
    /\ Len(hub) = 4 + 34 + 23 + 7
    /\ StorageNodes("electricity") = {"Elec_Storage"}
    /\ StorageNodes("heat") = {"Heat_Storage"}
    /\ StorageNodes("cooling") = {"Cooling_Storage"}

\* The nodes of the graph, and the nodes one branch away from a set of nodes.
GraphNodes == {b.src : b \in HubBranches} \cup {b.dst : b \in HubBranches}
Successors(nodes) == {b.dst : b \in {e \in HubBranches : e.src \in nodes}}

RECURSIVE ReachWithin(_, _)
\* The nodes reached from nodes in at most n steps.
ReachWithin(nodes, n) ==
    IF n = 0 THEN nodes ELSE ReachWithin(nodes \cup Successors(nodes), n - 1)

\* No node is reached from itself along one or more branches.
Acyclic ==
    \A x \in GraphNodes :
        x \notin ReachWithin(Successors({x}), Cardinality(GraphNodes))

\* The ports a branch of the carrier may leave, and those it may enter.
Sources(carrier) ==
    Producers(carrier) \cup {<<n, "energy_out">> : n \in StorageNodes(carrier)}
Sinks(carrier) ==
    Consumers(carrier) \cup {<<n, "energy_in">> : n \in StorageNodes(carrier)}
AllProducers == UNION {Producers(carrier) : carrier \in Carriers}
AllConsumers == UNION {Consumers(carrier) : carrier \in Carriers}

\* C18: the graph of the hub built has no directed cycle, and every branch
\* goes, within one carrier, from a producer port or the storage discharge
\* port to a consumer port or the storage charge port: no branch joins two
\* producer ports or two consumer ports.
C18_Acyclic ==
    HubBuilt =>
        /\ Acyclic
        /\ \A b \in HubBranches :
              /\ \E carrier \in Carriers :
                    SrcPort(b) \in Sources(carrier) /\ DstPort(b) \in Sinks(carrier)
              /\ ~(SrcPort(b) \in AllProducers /\ DstPort(b) \in AllProducers)
              /\ ~(SrcPort(b) \in AllConsumers /\ DstPort(b) \in AllConsumers)
              /\ ~(b.sport = "energy_out" /\ b.dport = "energy_in")

\* The hub is built, and through it gas reaches the cooling load: by a CHP,
\* a heat pump and the absorption chiller.
C18_Witness ==
    /\ HubBuilt
    /\ HasBranch(<<"Gas_Import", "out">>, <<"CHP_A", "fuel_in">>)
    /\ HasBranch(<<"CHP_A", "elec_out">>, <<"Heat_Pump_A", "elec_in">>)
    /\ HasBranch(<<"Heat_Pump_A", "heat_out">>, <<"WARP", "heat_in">>)
    /\ HasBranch(<<"WARP", "cool_out">>, <<"Cooling_Load", "in">>)
    /\ "Cooling_Load" \in ReachWithin({"Gas_Import"}, Cardinality(GraphNodes))

RowsFrom(port) == SelectSeq(AllIdx, LAMBDA k : k <= Len(hub) /\ SrcPort(hub[k]) = port)
RowsInto(port) == SelectSeq(AllIdx, LAMBDA k : k <= Len(hub) /\ DstPort(hub[k]) = port)

\* The ports the patterns of each sum name, in the order of the sum.
ElecGenPorts ==
    << <<"Elec_Import", "out">>, <<"CHP_A", "elec_out">>, <<"CHP_B", "elec_out">>,
       <<"ICE", "elec_out">>, <<"Elec_Storage", "energy_out">> >>
ElecConsPorts ==
    << <<"Elec_Boiler", "elec_in">>, <<"Heat_Pump_A", "elec_in">>,
       <<"Heat_Pump_B", "elec_in">>, <<"CERG_A", "elec_in">>, <<"CERG_B", "elec_in">>,
       <<"Elec_Storage", "energy_in">> >>
HeatGenPorts ==
    << <<"Gas_Boiler", "heat_out">>, <<"Elec_Boiler", "heat_out">>,
       <<"CHP_A", "heat_out">>, <<"CHP_B", "heat_out">>, <<"ICE", "heat_out">>,
       <<"Heat_Pump_A", "heat_out">>, <<"Heat_Pump_B", "heat_out">>,
       <<"Heat_Storage", "energy_out">> >>
HeatConsPorts == << <<"WARP", "heat_in">>, <<"Heat_Storage", "energy_in">> >>
CoolGenPorts ==
    << <<"CERG_A", "cool_out">>, <<"CERG_B", "cool_out">>, <<"WARP", "cool_out">>,
       <<"Cooling_Storage", "energy_out">> >>
CoolConsPorts == << <<"Cooling_Storage", "energy_in">> >>
GasConsPorts ==
    << <<"CHP_A", "fuel_in">>, <<"CHP_B", "fuel_in">>, <<"ICE", "fuel_in">>,
       <<"Gas_Boiler", "fuel_in">> >>

\* Each index list of a sum holds the rows of the branches at its port.
SelectsFrom(idx, ports) ==
    Len(idx) = Len(ports) /\ \A k \in 1..Len(idx) : idx[k] = RowsFrom(ports[k])
SelectsInto(idx, ports) ==
    Len(idx) = Len(ports) /\ \A k \in 1..Len(idx) : idx[k] = RowsInto(ports[k])

\* The supply sums of the carriers: the gas import, and the generation sums
\* of electricity, heat and cooling.
SupplyLists == <<gas_flow_total_idx>> \o elec_gen_idx \o heat_gen_idx \o cool_gen_idx

\* How many times row k is counted in the supply sums.
TimesCounted(k) ==
    Cardinality({c \in (1..Len(SupplyLists)) \X (1..Len(hub)) :
                    /\ c[2] <= Len(SupplyLists[c[1]])
                    /\ SupplyLists[c[1]][c[2]] = k})

\* C20: for the hub built, every name-prefix pattern of run_optimization
\* selects exactly the branches that leave the named component and port, and
\* every name-suffix pattern exactly those that enter it; and every branch
\* of the hub is counted exactly once in the supply sums of the carriers.
C20_Patterns ==
    HubBuilt =>
        /\ gas_flow_total_idx = RowsFrom(<<"Gas_Import", "out">>)
        /\ elec_flow_total_idx = RowsFrom(<<"Elec_Import", "out">>)
        /\ SelectsFrom(elec_gen_idx, ElecGenPorts)
        /\ SelectsInto(elec_cons_idx, ElecConsPorts)
        /\ SelectsFrom(heat_gen_idx, HeatGenPorts)
        /\ SelectsInto(heat_cons_idx, HeatConsPorts)
        /\ SelectsFrom(cool_gen_idx, CoolGenPorts)
        /\ SelectsInto(cool_cons_idx, CoolConsPorts)
        /\ SelectsInto(gas_cons_idx, GasConsPorts)
        /\ \A i \in 1..num_converters :
              /\ conv_input_idx[i]
                   = RowsInto(<<converters[i], input_ports(ClassOf(converters[i]))[1]>>)
              /\ \A j \in 1..Len(conv_output_idx[i]) :
                    conv_output_idx[i][j]
                      = RowsFrom(<<converters[i], output_ports(ClassOf(converters[i]))[j]>>)
        /\ \A i \in 1..num_storages :
              /\ stor_charge_idx[i] = RowsInto(<<storages[i], "energy_in">>)
              /\ stor_discharge_idx[i] = RowsFrom(<<storages[i], "energy_out">>)
        /\ \A k \in 1..Len(hub) : TimesCounted(k) = 1

\* The hub is built, and the pattern of the input of CHP_A selects one row and
\* the pattern of its electricity output seven.
C20_Witness ==
    /\ HubBuilt
    /\ Len(conv_input_idx[1]) = 1
    /\ Len(conv_output_idx[1][1]) = 7
    /\ Len(gas_flow_total_idx) = 4

\* The scenarios of the log that ended with an exception, and the others.
Raised(entry) == entry.outcome \in {"write raised", "run raised"}
NotRaised(entry) == ~Raised(entry)

\* The points of a list of log entries or of result rows, in order.
PointsIn(list) == [k \in 1..Len(list) |-> list[k].point]

\* C14: in both sweeps an exception of a scenario, raised while its
\* configuration is written or while run_optimization runs, does not stop the
\* sweep: the scenario contributes no result row, the points are run one
\* after another in list order, and the sweep ends only after every point was
\* run.
C14_SweepGoesOn ==
    pc \in {"looping", "swept", "crashed"} =>
        /\ PointsIn(sweep.log) = SubSeq(Points(sweep.name), 1, Len(sweep.log))
        /\ sweep.next = Len(sweep.log) + 1
        /\ PointsIn(sweep.all_results) = PointsIn(SelectSeq(sweep.log, NotRaised))
        /\ (\E k \in 1..Len(sweep.log) : Raised(sweep.log[k])) =>
              /\ pc # "crashed"
              /\ pc = "swept" => Len(sweep.log) = Len(Points(sweep.name))

\* A sweep has ended in which the first scenario raised and the last one was
\* solved.
C14_Witness ==
    /\ pc = "swept"
    /\ Len(sweep.log) = Len(Points(sweep.name))
    /\ Raised(sweep.log[1])
    /\ sweep.log[Len(sweep.log)].outcome = "solved"
    /\ Len(sweep.all_results) = Len(sweep.log) - 1

\* C21: in every solution the solver returns, the efficiencies being positive,
\* every storage unit has at the first hour of every representative day a
\* charge flow times eta_c equal to its discharge flow over eta_d, and both
\* flows are zero.
C21_FirstHourIdle ==
    Solved => \A i \in StorageIdx : \A d \in Days :
                 LET c == eta_c(i)
                     e == eta_d(i)
                     first == FirstHour(d)
                 IN  (c[1] > 0 /\ e[1] > 0) =>
                        /\ ChargeIn(i, first) * c[1] * e[1]
                             = DischargeOut(i, first) * e[2] * c[2]
                        /\ ChargeIn(i, first) = 0
                        /\ DischargeOut(i, first) = 0

\* A solution in which a storage unit with positive efficiencies is charged
\* and discharged in later hours of a day and idle in its first hour.
C21_Witness ==
    /\ Solved
    /\ \E i \in StorageIdx : \E d \in Days :
          \E t1, t2 \in (FirstHour(d) + 1)..LastHour(d) :
              /\ eta_c(i)[1] > 0 /\ eta_d(i)[1] > 0
              /\ invest_units_stor[i] > 0
              /\ ChargeIn(i, t1) > 0
              /\ DischargeOut(i, t2) > 0
              /\ ChargeIn(i, FirstHour(d)) = 0
              /\ DischargeOut(i, FirstHour(d)) = 0

\* What reaches the load node of a carrier at t.
Delivered(load_node, t) == Entering(load_node, "in", t)

\* C22: in every solution the solver returns, for electricity, heat and
\* cooling and every timestep, the shed amount is not above the demand of the
\* timestep, and the total flow on the branches into the carrier's load node
\* equals the demand minus the shed amount.
C22_LoadServed ==
    Solved => \A t \in Steps :
                 /\ shed_elec[t] <= typical_data[t + 1].elec_load
                 /\ shed_heat[t] <= typical_data[t + 1].heating_load
                 /\ shed_cool[t] <= typical_data[t + 1].cooling_load
                 /\ Delivered("Elec_Load", t) = typical_data[t + 1].elec_load - shed_elec[t]
                 /\ Delivered("Heat_Load", t)
                      = typical_data[t + 1].heating_load - shed_heat[t]
                 /\ Delivered("Cooling_Load", t)
                      = typical_data[t + 1].cooling_load - shed_cool[t]

\* A solution in which, at one timestep, part of the heat demand is delivered
\* and the rest is shed, and at one timestep a demand is delivered in full.
C22_Witness ==
    /\ Solved
    /\ \E t \in Steps :
          /\ Delivered("Heat_Load", t) > 0
          /\ shed_heat[t] > 0
    /\ \E t \in Steps :
          \/ Delivered("Elec_Load", t) > 0 /\ shed_elec[t] = 0
          \/ Delivered("Cooling_Load", t) > 0 /\ shed_cool[t] = 0

\* The log entry of the run that gave a result row.
RunOf(row) == CHOOSE entry \in ToSet(sweep.log) : entry.point = row.point

\* C23: in a sweep, a result row carries metrics of a summary file only when
\* the run of its own scenario in this sweep wrote that file; when that run
\* returned without writing a summary (configuration error, missing data
\* file, status not optimal), the row carries the error 'File not found' and
\* no metrics, whatever the results directory held before.
C23_OwnSummary ==
    \A k \in 1..Len(sweep.all_results) :
        LET row == sweep.all_results[k]
        IN  /\ RunOf(row).outcome \in NoSummaryOutcomes =>
                  /\ row.result.error = "File not found"
                  /\ row.result.summary = ""
            /\ row.result.summary # "" => RunOf(row).outcome = "solved"

====
